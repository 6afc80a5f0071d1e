-------------------------------- MODULE Router --------------------------------
(***************************************************************************)
(* The addresses of the web client and the component each one shows.       *)
(*                                                                         *)
(* The client is the page of one browser tab.  "identity" is the provider  *)
(* that MSAL redirects the whole tab to, where no code of the client runs. *)
(***************************************************************************)
EXTENDS Integers

VARIABLES
  url,       \* router.url: the address the client is at
  signedIn   \* MSAL has an account, which is then the active one

routerVars == <<url, signedIn>>

Paths == {"landing", "servers", "server", "maintenance", "identity"}

Guarded == {"servers", "server", "maintenance"}

At(path, id) == [path |-> path, id |-> id]

Landing  == At("landing", 0)
Servers  == At("servers", 0)
Identity == At("identity", 0)

\* MsalGuard: without an account the tab is redirected to the provider.
Activate(u) == IF u.path \in Guarded /\ ~signedIn THEN Identity ELSE u

\* Mutant of LandOn: the landing page leaves a signed-in user where he is.
LandAlways == Landing

\* LandingComponent.ngOnInit sends a signed-in user to his servers.
LandOn == IF signedIn THEN Servers ELSE Landing

\* The address ${router.url}/${id}: only below the list is there a route for
\* it; the wildcard route redirects every other one to the landing page.
Below(u, id) == IF u.path = "servers" THEN At("server", id) ELSE LandOn
===============================================================================
