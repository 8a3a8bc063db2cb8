------------------------------- MODULE MCAudit -------------------------------
(***************************************************************************)
(* An instance of Audit for TLC: ann, and eve, whom SSO knows by an        *)
(* address of her own and who has a second account named like her address. *)
(***************************************************************************)
EXTENDS Audit, TLC

CONSTANTS ann, eve, priv, logAnn, sepAnn, logEve, bot,
          appA, appE, r1, r2, fa, fe

Squashes == [l \in Logins |-> IF l = sepAnn THEN logAnn ELSE l]
LocalParts == ann :> logAnn @@ eve :> bot @@ priv :> bot
LoginOfEve == logEve :> eve
SamlNames == sepAnn :> ann @@ logEve :> priv @@ bot :> NoOne
Shown == sepAnn :> NoOne @@ logEve :> priv @@ bot :> NoOne
Installers == appA :> sepAnn @@ appE :> logEve
EveLeaves ==
  {[p \in Corporate |-> IF p = eve THEN s ELSE "active"] : s \in DirectoryStatus}
HandleForms ==
  [s \in Raw |-> IF s \in {eve, priv, logEve, bot} THEN <<fe, fa>> ELSE <<fa>>]
Names == sepAnn :> fa @@ logEve :> NoForm @@ bot :> fe
AppAndHookOff == {appA, OrgHooks}
=============================================================================
