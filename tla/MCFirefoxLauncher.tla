-------------------------- MODULE MCFirefoxLauncher --------------------------
(* A desktop with two monitors for TLC: profile "a" lives on workspace 7 of *)
(* the one, meetings on 5 and the user's own windows on 6 of the other.     *)
EXTENDS FirefoxLauncher, TLC

MCHome == [app \in Apps |-> 7]
MCProfiles == <<"a">>
MCLayout == ("left" :> <<6, 5>>) @@ ("right" :> <<7>>)
=============================================================================
