--------------------------- MODULE QueueContract ---------------------------
(***************************************************************************)
(* What the outbound queue promises whoever hands it a message, in the     *)
(* terms of RFC 5321: the queue is responsible for a message from its      *)
(* acceptance until it lets go of it, and it lets go only of a message     *)
(* whose fate was settled (taken by a remote host, sender notified, or     *)
(* nobody to notify).  A message let go of never comes back.               *)
(***************************************************************************)
EXTENDS Integers

CONSTANT MaxId

VARIABLES
    accepted,  \* messages accepted so far, numbered in order
    held,      \* messages the queue is responsible for
    settled    \* messages whose fate was settled

cvars == <<accepted, held, settled>>

CInit == accepted = 0 /\ held = {} /\ settled = {}

Accept ==
    /\ accepted < MaxId
    /\ accepted' = accepted + 1
    /\ held' = held \cup {accepted + 1}
    /\ UNCHANGED settled

\* Only a message the queue still holds can have its fate settled.
Settle(i) ==
    /\ i \in held
    /\ settled' = settled \cup {i}
    /\ UNCHANGED <<accepted, held>>

LetGo(i) ==
    /\ i \in held
    /\ i \in settled
    /\ held' = held \ {i}
    /\ UNCHANGED <<accepted, settled>>

CNext == Accept \/ \E i \in 1..MaxId : Settle(i) \/ LetGo(i)

ContractSpec == CInit /\ [][CNext]_cvars
=============================================================================
