----------------------------- MODULE Blocklist -----------------------------
(***************************************************************************)
(* Blocking one address on every firewall peer: the adapter of             *)
(* response/adapters/blocklist.py over the ownership ledger of             *)
(* response/transports/ownership.py, one ledger per peer.                  *)
(*                                                                         *)
(* A step is one call to a peer or one commit of a ledger; between two     *)
(* steps an analyst or the device may change the set, and the process may  *)
(* die.  The orchestrator makes one adapter call at a time.  The ledger    *)
(* keys everything by address, so one address is modelled.                 *)
(***************************************************************************)
EXTENDS Naturals

CONSTANTS
  Key,          \* idempotency keys of the operations
  NoKey,        \* no operation
  Peers,        \* number of firewall peers, called in the order 1..Peers
  MaxFaults,    \* bound: crashes, failing calls and commits
  MaxMoves      \* bound: changes of the sets by others

ASSUME BlocklistAssumption ==
  /\ NoKey \notin Key
  /\ Peers \in Nat \ {0}
  /\ MaxFaults \in Nat
  /\ MaxMoves \in Nat

Peer == 1..Peers

VARIABLES
  entry,      \* per peer: who placed the element that is in the set
  mode,       \* per peer, table `owners`: the claim of each key
  foreign,    \* per peer, table `foreign_entries`
  job,        \* the adapter call in progress
  phase,      \* what the caller knows of each operation
  completed,  \* history: keys with a revert that once reported success
  seen,       \* history, per peer: the entry there was found pre-existing
  lost,       \* history, per peer: others took the entry away
  wronged,    \* history: which entry of others the plane has removed
  overlap,    \* history: calls were not made as the orchestrator makes them
  faults, moves

ledger == <<mode, foreign>>
history == <<completed, seen, lost, wronged, overlap>>
vars == <<entry, ledger, job, phase, history, faults, moves>>

\* An adapter call: the operation, its position at peer `at`, the tag of the
\* last release, whether some peer failed, and whether a call or commit raised.
Job == [op: {"none", "apply", "undo", "verify", "revert"},
        pc: {"idle", "look", "mark", "intend", "put", "own", "join", "peek", "restore", "check",
             "read", "drop", "forget", "confirm", "done"},
        key: Key \cup {NoKey}, at: 0..Peers,
        tag: {"absent", "kept", "removed"}, failed: BOOLEAN, raised: BOOLEAN]

NoJob == [op |-> "none", pc |-> "idle", key |-> NoKey, at |-> 0,
          tag |-> "absent", failed |-> FALSE, raised |-> FALSE]

Init ==
  /\ entry \in [Peer -> {"none", "analyst"}]
  /\ mode = [p \in Peer |-> [k \in Key |-> "no"]]
  /\ foreign = [p \in Peer |-> FALSE]
  /\ job = NoJob
  /\ phase = [k \in Key |-> "new"]
  /\ completed = {}
  /\ seen = [p \in Peer |-> FALSE]
  /\ lost = [p \in Peer |-> FALSE]
  /\ wronged = "no"
  /\ overlap = FALSE
  /\ faults = 0
  /\ moves = 0

Present(p) == entry[p] # "none"
Owners(p) == {k \in Key : mode[p][k] # "no"}
At(op, pc) == job.op = op /\ job.pc = pc
Goto(pc) == job' = [job EXCEPT !.pc = pc]
Fault == faults < MaxFaults /\ faults' = faults + 1

\* claim: one transaction of the ledger of the peer.
Claim(p, k, m) == mode' = [mode EXCEPT ![p][k] = m]

\* Mutant: the pre-existing mark goes with the first release.
ReleaseUnmarks(p, k) ==
  /\ mode' = [mode EXCEPT ![p][k] = "no"]
  /\ foreign' = [foreign EXCEPT ![p] = FALSE]

\* release: the last claim takes the pre-existing mark with it.
Release(p, k) ==
  /\ mode' = [mode EXCEPT ![p][k] = "no"]
  /\ foreign' = [foreign EXCEPT ![p] = @ /\ Owners(p) \ {k} # {}]

\* RawSet.add and RawSet.remove as the peer carries them out: idempotent.
RawAdd(p) ==
  /\ entry' = [entry EXCEPT ![p] = IF @ = "none" THEN "plane" ELSE @]
  /\ lost' = [lost EXCEPT ![p] = FALSE]
  /\ UNCHANGED <<seen, wronged>>

RawRemove(p) ==
  /\ entry' = [entry EXCEPT ![p] = "none"]
  /\ wronged' = IF entry[p] # "analyst" THEN wronged
                ELSE IF seen[p] THEN "seen" ELSE IF wronged = "no" THEN "unseen" ELSE wronged
  /\ seen' = [seen EXCEPT ![p] = FALSE]
  /\ UNCHANGED lost
-----------------------------------------------------------------------------
(* apply: add on every peer, each followed by a read-back.                 *)

\* The caller starts an apply, or repeats one whose outcome it lost.  The
\* orchestrator does so once per operation and only while no other operation of
\* the target is unresolved; the adapter and its ledger also serve a caller that
\* does not keep to this.
StartApply(k) ==
  /\ job = NoJob
  /\ phase[k] \in {"new", "unknown"}
  /\ overlap' = (overlap \/ phase[k] # "new" \/ \E o \in Key \ {k} : phase[o] \notin {"new", "ended"})
  /\ job' = [NoJob EXCEPT !.op = "apply", !.pc = "look", !.key = k, !.at = 1]
  /\ phase' = [phase EXCEPT ![k] = "unknown"]
  /\ UNCHANGED <<entry, ledger, completed, seen, lost, wronged, faults, moves>>

\* add_soc_blocklist_address up to its first commit: what the ledger and the
\* peer say of the address.
Look ==
  /\ At("apply", "look")
  /\ LET p == job.at
     IN \/ /\ job.key \in Owners(p)
           /\ Goto(IF Present(p) THEN "own" ELSE "put")
        \/ /\ Owners(p) = {} /\ ~foreign[p]
           /\ Goto(IF Present(p) THEN "mark" ELSE "intend")
        \/ /\ job.key \notin Owners(p) /\ (Owners(p) # {} \/ foreign[p])
           /\ Goto("join")
  /\ UNCHANGED <<entry, ledger, phase, history, faults, moves>>

\* Mutant: the claim is committed only after the add.
IntendNothing ==
  /\ At("apply", "intend")
  /\ Goto("put")
  /\ UNCHANGED <<entry, ledger, phase, history, faults, moves>>

\* The intent to add, before the side effect.
Intend ==
  /\ At("apply", "intend")
  /\ Claim(job.at, job.key, "adding")
  /\ Goto("put")
  /\ UNCHANGED <<entry, foreign, phase, history, faults, moves>>

\* A claim on an entry that was there before any claim.
Mark ==
  /\ At("apply", "mark")
  /\ Claim(job.at, job.key, "owned")
  /\ foreign' = [foreign EXCEPT ![job.at] = TRUE]
  /\ seen' = [seen EXCEPT ![job.at] = Present(job.at)]
  /\ Goto("check")
  /\ UNCHANGED <<entry, phase, completed, lost, wronged, overlap, faults, moves>>

\* A claim on an address that other operations hold.
Join ==
  /\ At("apply", "join")
  /\ Claim(job.at, job.key, "owned")
  /\ Goto("peek")
  /\ UNCHANGED <<entry, foreign, phase, history, faults, moves>>

Peek ==
  /\ At("apply", "peek")
  /\ Goto(IF Present(job.at) THEN "check" ELSE "restore")
  /\ UNCHANGED <<entry, ledger, phase, history, faults, moves>>

\* The add itself; one that restores what others' claims should have kept needs
\* no further claim.
Put ==
  /\ job.op = "apply" /\ job.pc \in {"put", "restore"}
  /\ RawAdd(job.at)
  /\ Goto(IF job.pc = "put" THEN "own" ELSE "check")
  /\ UNCHANGED <<ledger, phase, completed, overlap, faults, moves>>

\* The claim after the add, or of an operation that finds its own claim.
Own ==
  /\ At("apply", "own")
  /\ Claim(job.at, job.key, "owned")
  /\ Goto("check")
  /\ UNCHANGED <<entry, foreign, phase, history, faults, moves>>

\* Mutant: the peer whose add was in flight is not compensated.
UndoOthers ==
  job' = [job EXCEPT !.op = "undo", !.failed = TRUE, !.at = @ - 1,
                     !.pc = IF job.at = 1 THEN "done" ELSE "drop"]

\* _rollback_peers: the peers called so far in reverse order, the one in
\* flight included.
Undo == job' = [job EXCEPT !.op = "undo", !.pc = "drop", !.failed = TRUE]

\* The read-back after an add; the next peer, or the end of a successful apply.
Check ==
  /\ At("apply", "check")
  /\ \/ ~Present(job.at) /\ Undo
     \/ Present(job.at) /\ job.at < Peers /\ job' = [job EXCEPT !.pc = "look", !.at = @ + 1]
     \/ Present(job.at) /\ job.at = Peers /\ Goto("done")
  /\ UNCHANGED <<entry, ledger, phase, history, faults, moves>>

\* A call or a commit of apply raises; an add may have been carried out.
ApplyRaises ==
  /\ job.op = "apply" /\ job.pc # "done"
  /\ Fault
  /\ \/ UNCHANGED <<entry, history>>
     \/ job.pc \in {"put", "restore"} /\ RawAdd(job.at) /\ UNCHANGED <<completed, overlap>>
  /\ Undo
  /\ UNCHANGED <<ledger, phase, moves>>
-----------------------------------------------------------------------------
(* verify and revert.                                                      *)

StartVerify(k) ==
  /\ job = NoJob /\ phase[k] = "applied"
  /\ job' = [NoJob EXCEPT !.op = "verify", !.pc = "read", !.key = k, !.at = 1]
  /\ UNCHANGED <<entry, ledger, phase, history, faults, moves>>

\* Read one peer; a peer that cannot be read ends the verification.
Read ==
  /\ At("verify", "read")
  /\ \/ /\ job' = IF job.at < Peers THEN [job EXCEPT !.failed = @ \/ ~Present(job.at), !.at = @ + 1]
                  ELSE [job EXCEPT !.failed = @ \/ ~Present(job.at), !.pc = "done"]
        /\ UNCHANGED faults
     \/ Fault /\ job' = [job EXCEPT !.failed = TRUE, !.raised = TRUE, !.pc = "done"]
  /\ UNCHANGED <<entry, ledger, phase, history, moves>>

\* The caller reverts what was, or may have been, applied; also again after a
\* revert whose outcome it lost.
StartRevert(k) ==
  /\ job = NoJob /\ phase[k] \in {"unknown", "applied", "verified"}
  /\ job' = [NoJob EXCEPT !.op = "revert", !.pc = "drop", !.key = k, !.at = 1]
  /\ phase' = [phase EXCEPT ![k] = "unknown"]
  /\ UNCHANGED <<entry, ledger, history, faults, moves>>

\* Where a release at this peer leads: compensation goes on with the peer
\* before it, a revert reads the peer back.
Released(tag) ==
  job' = CASE job.op = "revert"               -> [job EXCEPT !.pc = "confirm", !.tag = tag]
           [] job.op = "undo" /\ job.at > 1   -> [job EXCEPT !.pc = "drop", !.at = @ - 1, !.tag = tag]
           [] OTHER                           -> [job EXCEPT !.pc = "done", !.tag = tag]

\* Mutant: another operation's claim does not keep the entry.
HeldByOthersNever(p, k) == foreign[p]

\* The address has another owner or was there before: it must stay.
HeldByOthers(p, k) == Owners(p) \ {k} # {} \/ foreign[p]

\* remove_soc_blocklist_address up to the removal.
Drop ==
  /\ job.pc = "drop"
  /\ LET p == job.at k == job.key
     IN \/ /\ k \notin Owners(p)
           /\ Released("absent") /\ UNCHANGED <<entry, ledger, history>>
        \/ /\ k \in Owners(p) /\ HeldByOthers(p, k)
           /\ Release(p, k) /\ Released("kept") /\ UNCHANGED <<entry, history>>
        \/ /\ k \in Owners(p) /\ ~HeldByOthers(p, k)
           /\ RawRemove(p) /\ Goto("forget") /\ UNCHANGED <<ledger, completed, overlap>>
  /\ UNCHANGED <<phase, faults, moves>>

\* The release that follows the removal.
Forget ==
  /\ job.pc = "forget"
  /\ Release(job.at, job.key)
  /\ Released("removed")
  /\ UNCHANGED <<entry, phase, history, faults, moves>>

\* The next peer of a revert, or its end.
NextPeer(failed, raised) ==
  job' = [job EXCEPT !.failed = @ \/ failed, !.raised = @ \/ raised,
                     !.pc = IF job.at < Peers THEN "drop" ELSE "done",
                     !.at = IF job.at < Peers THEN @ + 1 ELSE @]

\* Mutant: a peer on which the ledger finds no claim counts as a failure.
ConfirmClaimed ==
  /\ At("revert", "confirm")
  /\ NextPeer((Present(job.at) /\ job.tag # "kept") \/ job.tag = "absent", FALSE)
  /\ UNCHANGED <<entry, ledger, phase, history, faults, moves>>

\* The read-back after a release: the address may stay only where the ledger
\* says that it is someone else's.
Confirm ==
  /\ At("revert", "confirm")
  /\ NextPeer(Present(job.at) /\ job.tag # "kept", FALSE)
  /\ UNCHANGED <<entry, ledger, phase, history, faults, moves>>

\* Mutant: a peer that raised is passed over.
RevertPeerSkipped == NextPeer(FALSE, TRUE)

\* A revert notes a peer that raised and goes on with the next.
RevertPeerRaises == NextPeer(TRUE, TRUE)

\* Compensation goes on as well.
UndoPeerRaises ==
  job' = [job EXCEPT !.raised = TRUE, !.pc = IF job.at > 1 THEN "drop" ELSE "done",
                     !.at = IF job.at > 1 THEN @ - 1 ELSE @]

\* A call or commit of a release raises; a removal may have been carried out.
ReleaseRaises ==
  /\ job.pc \in {"drop", "forget", "confirm"}
  /\ Fault
  /\ \/ UNCHANGED <<entry, history>>
     \/ /\ job.pc = "drop" /\ job.key \in Owners(job.at) /\ ~HeldByOthers(job.at, job.key)
        /\ RawRemove(job.at) /\ UNCHANGED <<completed, overlap>>
  /\ \/ job.op = "revert" /\ RevertPeerRaises
     \/ job.op = "undo" /\ UndoPeerRaises
  /\ UNCHANGED <<ledger, phase, moves>>
-----------------------------------------------------------------------------
(* Outcomes, crashes and the world around.                                 *)

\* The outcome the adapter returns, as the caller records it.
Outcome ==
  CASE job.op = "revert" -> IF job.failed THEN "unknown" ELSE "ended"
    [] job.op = "verify" -> IF job.failed THEN "unknown" ELSE "verified"
    [] job.op = "apply"  -> "applied"
    [] OTHER             -> "unknown"

Reported == completed' = IF job.op = "revert" /\ ~job.failed THEN completed \cup {job.key}
                         ELSE completed

Finish ==
  /\ job.pc = "done"
  /\ phase' = [phase EXCEPT ![job.key] = Outcome]
  /\ Reported
  /\ job' = NoJob
  /\ UNCHANGED <<entry, ledger, seen, lost, wronged, overlap, faults, moves>>

\* The process dies during a call, or after it and before recording its outcome.
Crash ==
  /\ job # NoJob
  /\ Fault
  /\ phase' = [phase EXCEPT ![job.key] = IF job.op = "verify" THEN @ ELSE "unknown"]
  /\ IF job.pc = "done" THEN Reported ELSE UNCHANGED completed
  /\ job' = NoJob
  /\ UNCHANGED <<entry, ledger, seen, lost, wronged, overlap, moves>>

Move == moves < MaxMoves /\ moves' = moves + 1

\* An analyst blocks the address by hand; over an entry it changes nothing.
AnalystAdds(p) ==
  /\ Move
  /\ ~Present(p)
  /\ entry' = [entry EXCEPT ![p] = "analyst"]
  /\ UNCHANGED <<ledger, job, phase, history, faults>>

\* An entry goes away: the element's timeout, a reboot, an analyst.
OthersRemove(p) ==
  /\ Move
  /\ Present(p)
  /\ entry' = [entry EXCEPT ![p] = "none"]
  /\ seen' = [seen EXCEPT ![p] = FALSE]
  /\ lost' = [lost EXCEPT ![p] = TRUE]
  /\ UNCHANGED <<ledger, job, phase, completed, wronged, overlap, faults>>

Apply == Look \/ Intend \/ Mark \/ Join \/ Peek \/ Put \/ Own \/ Check \/ ApplyRaises
Lift == Drop \/ Forget \/ Confirm \/ ReleaseRaises

Next ==
  \/ \E k \in Key : StartApply(k) \/ StartVerify(k) \/ StartRevert(k)
  \/ Apply \/ Lift \/ Read \/ Finish \/ Crash
  \/ \E p \in Peer : AnalystAdds(p) \/ OthersRemove(p)

Spec == Init /\ [][Next]_vars
-----------------------------------------------------------------------------
(* Properties.                                                             *)

\* Every variable keeps to its values.
TypeOK ==
  /\ entry \in [Peer -> {"none", "plane", "analyst"}]
  /\ mode \in [Peer -> [Key -> {"no", "adding", "owned"}]]
  /\ foreign \in [Peer -> BOOLEAN]
  /\ job \in Job
  /\ phase \in [Key -> {"new", "unknown", "applied", "verified", "ended"}]
  /\ completed \in SUBSET Key
  /\ seen \in [Peer -> BOOLEAN]
  /\ lost \in [Peer -> BOOLEAN]
  /\ wronged \in {"no", "unseen", "seen"}
  /\ overlap \in BOOLEAN
  /\ faults \in Nat
  /\ moves \in Nat

\* Called as the orchestrator calls it, the plane has an owner in the durable
\* ledger of a peer for whatever it has placed there, so that a revert after a
\* crash or a timeout finds and removes it.
PlacedIsOwned == overlap \/ \A p \in Peer : entry[p] = "plane" => Owners(p) # {}

\* Called so, an operation that is reported ended holds no claim on any peer, and
\* when no operation is open, nothing the plane placed blocks the address: the
\* promise the orchestrator's AdapterRevert step relies on.  "A partial apply is
\* compensated before the failure is returned": when apply reports failure and
\* no compensating call failed, no peer, the one in flight included, keeps a
\* claim of the operation.
ContainmentLifted ==
  \/ overlap
  \/ /\ \A k \in Key : phase[k] = "ended" => \A p \in Peer : k \notin Owners(p)
     /\ (\A k \in Key : phase[k] \in {"new", "ended"}) => \A p \in Peer : entry[p] # "plane"
     /\ (job.op = "undo" /\ job.pc = "done" /\ ~job.raised) =>
          \A p \in Peer : job.key \notin Owners(p)

\* Also under a caller whose operations overlap: while one holds the address as
\* applied, no other operation's compensation or revert takes the block away.
SharedEntryKept ==
  \A k \in Key : phase[k] \in {"applied", "verified"} =>
    \A p \in Peer : Present(p) \/ lost[p]

\* An entry of others that an operation has found and marked as pre-existing is
\* not removed by any operation, however claims come and go over it.
ObservedEntryKept == wronged # "seen"

\* "a revert can never remove an entry the response plane did not add"
\* (response/README.md); "a foreign entry is never removed"
\* (response/transports/README.md).
ForeignEntryKept == wronged = "no"

\* "Revert must be safe to repeat, including after an apply timeout or after an
\* already completed revert" (response/adapters/README.md): called as the
\* orchestrator calls it, repeated after a success whose outcome was lost and
\* with every call answered, it succeeds, unless an entry of others is left on a
\* peer or went away meanwhile.
RevertRepeats ==
  job.op = "revert" /\ job.pc = "done" /\ job.key \in completed /\ ~job.raised /\ job.failed =>
    overlap \/ \E p \in Peer : entry[p] = "analyst" \/ lost[p]
=============================================================================
