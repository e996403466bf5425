-------------------------- MODULE SessionRegistry --------------------------
(***************************************************************************)
(* What the session machinery of Kafkaesque promises, with one atomic step  *)
(* per event and no requests: every account has a version, a token carries  *)
(* the version of the moment it is signed, and revoking moves the account   *)
(* to its next version.  An account that is closed never opens again.       *)
(* Accounts implements this module whatever the interleaving of requests.   *)
(***************************************************************************)
EXTENDS Naturals

CONSTANTS Ids, None, StartVersions, StartTokens

VARIABLES version,   \* the version of every open account
          closed,    \* accounts that are gone for good
          tokens     \* every token signed so far

registryVars == <<version, closed, tokens>>

Opened == DOMAIN version
SignedFor(i, v) == [user |-> i, ver |-> v]

Init == /\ version = StartVersions
        /\ closed = {}
        /\ tokens = StartTokens

\* A new account starts at version 1, with or without a first token.
Open(i) ==
  /\ i \notin Opened \cup closed
  /\ version' = [j \in Opened \cup {i} |-> IF j = i THEN 1 ELSE version[j]]
  /\ tokens' \in {tokens, tokens \cup {SignedFor(i, 1)}}
  /\ UNCHANGED closed

Sign(i) ==
  /\ tokens' = tokens \cup {SignedFor(i, version[i])}
  /\ UNCHANGED <<version, closed>>

\* A token for no account at all, which nothing ever accepts.
SignForNobody ==
  /\ tokens' = tokens \cup {SignedFor(None, 0)}
  /\ UNCHANGED <<version, closed>>

Revoke(i) ==
  /\ version' = [version EXCEPT ![i] = @ + 1]
  /\ UNCHANGED <<closed, tokens>>

Close(i) ==
  /\ version' = [j \in Opened \ {i} |-> version[j]]
  /\ closed' = closed \cup {i}
  /\ UNCHANGED tokens

Next == \/ \E i \in Ids : Open(i)
        \/ SignForNobody
        \/ \E i \in Opened : Sign(i) \/ Revoke(i) \/ Close(i)

Spec == Init /\ [][Next]_registryVars
=============================================================================
