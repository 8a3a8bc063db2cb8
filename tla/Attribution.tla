----------------------------- MODULE Attribution -----------------------------
(***************************************************************************)
(* Guessing who an identifier belongs to: the proposals for seats that no  *)
(* address or alias attributes (core.AttributeUnresolved) and the seats    *)
(* colleagues hold under a private address (core.FindGhostIdentities).     *)
(*                                                                         *)
(* Both reduce names and handles to forms and ask which people of the      *)
(* directory a form may spell (matchesHandle).  How it may spell them -    *)
(* accents, abbreviations, surnames - is left open: `claims` gives each    *)
(* form the people it could stand for.                                     *)
(***************************************************************************)
EXTENDS Sequences, Naturals

CONSTANTS Nobody, NoForm

\* What a seat says of its holder: the name stated for it, if it is not just
\* the identifier, the forms of the identifier (with its decorations, and
\* stripped of them), and those of a handle listed beside an address.
Evidence(stated, handle, login) ==
  [stated |-> stated, handle |-> handle, login |-> login]

\* Mutant: of several the first will do.
matchAgainst_First(claims, form) ==
  IF claims[form] # {} THEN CHOOSE p \in claims[form] : TRUE ELSE Nobody

\* A form that several people claim names none of them.
matchAgainst(claims, form) ==
  IF \E p \in claims[form] : claims[form] = {p}
  THEN CHOOSE p \in claims[form] : TRUE
  ELSE Nobody

\* The first form that is somebody's.
matchHandle(claims, forms) ==
  LET decisive == {i \in DOMAIN forms : matchAgainst(claims, forms[i]) # Nobody}
  IN IF decisive = {} THEN Nobody
     ELSE matchAgainst(claims,
            forms[CHOOSE i \in decisive : \A j \in decisive : i <= j])

Or(first, second) == IF first # Nobody THEN first ELSE second

Employed(active, p) == IF p \in active THEN p ELSE Nobody

\* Mutant: a name that matches nobody is no reason to stop.
GhostMatch_NoVeto(claims, active, e) ==
  Employed(active,
    Or(IF e.stated = NoForm THEN Nobody ELSE matchAgainst(claims, e.stated),
       Or(matchHandle(claims, e.handle), matchHandle(claims, e.login))))

\* FindGhostIdentities: a stated name that matches nobody vetoes the rest, and
\* only an active employee is a match.
GhostMatch(claims, active, e) ==
  Employed(active,
    IF e.stated # NoForm THEN matchAgainst(claims, e.stated)
    ELSE Or(matchHandle(claims, e.handle), matchHandle(claims, e.login)))

\* AttributeUnresolved: here it does not.
ProposedMatch(claims, e) ==
  Or(IF e.stated = NoForm THEN Nobody ELSE matchAgainst(claims, e.stated),
     matchHandle(claims, e.handle))
=============================================================================
