-------------------------- MODULE BlocklistProofs --------------------------
(***************************************************************************)
(* Proofs about Blocklist, for every set of operations, every number of    *)
(* firewall peers, and any number of crashes, failing calls and changes    *)
(* that others make to the sets.                                           *)
(***************************************************************************)
EXTENDS Blocklist, TLAPS

\* Where a call can stand, and what its caller has recorded meanwhile.
JobOK ==
  \/ job = NoJob
  \/ /\ job.key \in Key /\ job.at \in Peer
     /\ \/ /\ job.op = "apply" /\ phase[job.key] = "unknown"
           /\ job.pc \in {"look", "mark", "intend", "put", "own", "join", "peek", "restore",
                          "check", "done"}
        \/ /\ job.op = "undo" /\ phase[job.key] = "unknown"
           /\ job.pc \in {"drop", "forget", "done"}
        \/ /\ job.op = "revert" /\ phase[job.key] = "unknown"
           /\ job.pc \in {"drop", "forget", "confirm", "done"}
        \/ /\ job.op = "verify" /\ phase[job.key] = "applied"
           /\ job.pc \in {"read", "done"}

\* Only open operations hold claims; a pre-existing mark and the observation it
\* records stay together for as long as there is a claim.
LedgerOK ==
  \A p \in Peer :
    /\ \A k \in Owners(p) : phase[k] \notin {"new", "ended"}
    /\ foreign[p] => Owners(p) # {}
    /\ seen[p] => Present(p)
    /\ seen[p] /\ Owners(p) # {} => foreign[p]

\* An operation holds its claim on a peer, and the block is there unless others
\* took it away.
Held(k, p) == k \in Owners(p) /\ (Present(p) \/ lost[p])

HeldOK == \A k \in Key : phase[k] \in {"applied", "verified"} => \A p \in Peer : Held(k, p)

\* How far an apply has come.
ApplyOK ==
  job.op = "apply" =>
    /\ job.pc = "intend" => ~seen[job.at]
    /\ job.pc = "join" => Owners(job.at) # {} \/ foreign[job.at]
    /\ job.pc \in {"put", "own", "peek", "restore", "check", "done"} => job.key \in Owners(job.at)
    /\ \A q \in Peer : q < job.at => Held(job.key, q)
    /\ job.pc = "done" => job.at = Peers /\ Held(job.key, job.at)

\* How far a revert has come, as long as nothing failed.
RevertOK ==
  job.op = "revert" /\ ~job.failed =>
    /\ \A q \in Peer : q < job.at => job.key \notin Owners(q)
    /\ job.pc = "confirm" => job.key \notin Owners(job.at)
    /\ job.pc = "done" => job.at = Peers /\ job.key \notin Owners(job.at)

Always == TypeOK /\ JobOK /\ LedgerOK /\ HeldOK /\ ApplyOK /\ RevertOK /\ wronged # "seen"

Open(k) == phase[k] \notin {"new", "ended"}

\* What the plane placed has an owner, and is not taken for an entry of others.
PlacedOK ==
  \A p \in Peer : entry[p] = "plane" =>
    /\ Owners(p) # {}
    /\ ~foreign[p]
    /\ ~(job.pc = "forget" /\ job.at = p)

\* A call that nothing overlaps meets no claim but its own.
AloneOK ==
  /\ job.pc \notin {"join", "peek", "restore"}
  /\ job.op = "apply" =>
       /\ \A q \in Peer : q > job.at => job.key \notin Owners(q)
       /\ job.pc \in {"look", "mark", "intend"} => Owners(job.at) = {}
       /\ job.pc \in {"look", "mark", "intend", "put"} => ~foreign[job.at]
  /\ job.op = "undo" /\ ~job.raised =>
       /\ \A q \in Peer : q > job.at => job.key \notin Owners(q)
       /\ job.pc = "done" => job.at = 1 /\ job.key \notin Owners(job.at)

\* A revert that once reported success has left nothing to revert.
CompletedOK ==
  /\ \A k \in completed : phase[k] \in {"unknown", "ended"} /\ \A p \in Peer : k \notin Owners(p)
  /\ job.op \in {"apply", "undo"} => job.key \notin completed
  /\ job.op = "revert" /\ job.key \in completed /\ ~job.raised /\ job.failed =>
       \E p \in Peer : entry[p] = "analyst" \/ lost[p]

\* What holds as long as calls are made as the orchestrator makes them.
Ordered ==
  /\ \A k, o \in Key : Open(k) /\ Open(o) => k = o
  /\ PlacedOK
  /\ AloneOK
  /\ CompletedOK

\* The inductive invariant.
Inv == Always /\ (overlap \/ Ordered)
-----------------------------------------------------------------------------
(* Every step of a call keeps it: apply.                                   *)

\* A caller that starts an apply: if it does so out of turn, `overlap` says so.
LEMMA StartApplyKeeps ==
  ASSUME Inv, NEW k \in Key, StartApply(k)
  PROVE  Inv'
<1> USE DEF Peer
<1>1. /\ job = NoJob /\ phase[k] \in {"new", "unknown"}
      /\ job' = [op |-> "apply", pc |-> "look", key |-> k, at |-> 1,
                 tag |-> "absent", failed |-> FALSE, raised |-> FALSE]
      /\ phase' = [phase EXCEPT ![k] = "unknown"]
      /\ UNCHANGED <<entry, mode, foreign, completed, seen, lost, wronged, faults, moves>>
  BY DEF StartApply, NoJob, ledger
<1>2. /\ overlap' \in BOOLEAN
      /\ overlap => overlap'
      /\ ~overlap' => phase[k] = "new" /\ \A o \in Key \ {k} : phase[o] \in {"new", "ended"}
  BY DEF StartApply
<1>3. job' \in Job
  BY <1>1, BlocklistAssumption DEF Job
<1>4. TypeOK'
  BY <1>1, <1>2, <1>3 DEF Inv, Always, TypeOK
<1>5. JobOK'
  BY <1>1, BlocklistAssumption DEF Inv, Always, TypeOK, JobOK
<1>6. LedgerOK'
  BY <1>1 DEF Inv, Always, TypeOK, LedgerOK, Owners, Present
<1>7. HeldOK'
  BY <1>1 DEF Inv, Always, TypeOK, HeldOK, Held, Owners, Present
<1>8. ApplyOK' /\ RevertOK'
  BY <1>1, BlocklistAssumption DEF Inv, Always, TypeOK, ApplyOK, RevertOK
<1>9. ASSUME Ordered, ~overlap' PROVE Ordered'
  <2>1. \A a, o \in Key : Open(a)' /\ Open(o)' => a = o
    BY <1>1, <1>2, <1>9 DEF Inv, Always, TypeOK, Open
  <2>2. PlacedOK'
    BY <1>1, <1>9 DEF Ordered, PlacedOK, Owners
  <2>3. \A p \in Peer : Owners(p) = {} /\ Owners(p)' = {} /\ ~foreign[p]
    BY <1>1, <1>2, <1>9 DEF Inv, Always, TypeOK, LedgerOK, Owners
  <2>4. AloneOK'
    BY <1>1, <2>3, BlocklistAssumption DEF AloneOK, Owners
  <2>5. CompletedOK'
    BY <1>1, <1>2, <1>9 DEF Inv, Always, TypeOK, Ordered, CompletedOK, Owners
  <2> QED BY <2>1, <2>2, <2>4, <2>5 DEF Ordered
<1> QED BY <1>1, <1>2, <1>4, <1>5, <1>6, <1>7, <1>8, <1>9 DEF Inv, Always

\* The first look at ledger and peer picks the branch that fits the claims.
LEMMA LookKeeps ==
  ASSUME Inv, Look
  PROVE  Inv'
<1> USE DEF Peer
<1>1. /\ job.op = "apply" /\ job.pc = "look" /\ job.at \in Peer /\ job.key \in Key
      /\ phase[job.key] = "unknown"
      /\ UNCHANGED <<entry, mode, foreign, phase, completed, seen, lost, wronged, overlap, faults, moves>>
  BY DEF Inv, Always, JobOK, Look, At, NoJob, ledger, history
<1>2. PICK pc \in {"own", "put", "mark", "intend", "join"} :
        /\ job' = [job EXCEPT !.pc = pc]
        /\ pc \in {"own", "put"} => job.key \in Owners(job.at)
        /\ pc = "intend" => ~Present(job.at)
        /\ pc \in {"mark", "intend"} => Owners(job.at) = {} /\ ~foreign[job.at]
        /\ pc = "join" => Owners(job.at) # {} \/ foreign[job.at]
  BY DEF Look, Goto
<1>3. /\ job' \in Job /\ job'.op = "apply" /\ job'.pc = pc /\ job'.at = job.at
      /\ job'.key = job.key
  BY <1>1, <1>2 DEF Inv, Always, TypeOK, Job
<1>4. TypeOK'
  BY <1>1, <1>3 DEF Inv, Always, TypeOK
<1>5. JobOK'
  BY <1>1, <1>3 DEF JobOK
<1>6. LedgerOK' /\ HeldOK'
  BY <1>1 DEF Inv, Always, LedgerOK, HeldOK, Held, Owners, Present
<1>7. ApplyOK' /\ RevertOK'
  BY <1>1, <1>2, <1>3 DEF Inv, Always, LedgerOK, ApplyOK, RevertOK, Held, Owners, Present
<1>8. ASSUME Ordered PROVE Ordered'
  <2>1. pc \in {"mark", "intend"} 
    BY <1>1, <1>2, <1>8 DEF Ordered, AloneOK
  <2>2. PlacedOK' /\ AloneOK' /\ CompletedOK'
    BY <1>1, <1>2, <1>3, <1>8, <2>1 DEF Ordered, PlacedOK, AloneOK, CompletedOK, Owners
  <2> QED BY <1>1, <1>8, <2>2 DEF Ordered, Open
<1> QED BY <1>1, <1>4, <1>5, <1>6, <1>7, <1>8 DEF Inv, Always

\* A claim of the calling operation, before the add, after it, or beside others.
LEMMA ClaimsKeep ==
  ASSUME Inv, Intend \/ Join \/ Own
  PROVE  Inv'
<1> USE DEF Peer
<1>1. /\ job.op = "apply" /\ job.pc \in {"intend", "join", "own"}
      /\ job.at \in Peer /\ job.key \in Key /\ phase[job.key] = "unknown"
      /\ UNCHANGED <<entry, foreign, phase, completed, seen, lost, wronged, overlap, faults, moves>>
  BY DEF Inv, Always, JobOK, Intend, Join, Own, At, NoJob, history
<1>2. PICK pc \in {"put", "peek", "check"} :
        /\ job' = [job EXCEPT !.pc = pc]
        /\ job.pc = "intend" => pc = "put"
        /\ job.pc = "join" => pc = "peek"
        /\ job.pc = "own" => pc = "check"
  BY DEF Intend, Join, Own, At, Goto
<1>3. /\ job' \in Job /\ job'.op = "apply" /\ job'.pc = pc /\ job'.at = job.at
      /\ job'.key = job.key
  BY <1>1, <1>2 DEF Inv, Always, TypeOK, Job
<1>4. PICK m \in {"adding", "owned"} : mode' = [mode EXCEPT ![job.at][job.key] = m]
  BY DEF Intend, Join, Own, Claim
<1>5. TypeOK'
  BY <1>1, <1>3, <1>4 DEF Inv, Always, TypeOK
<1>6. JobOK'
  BY <1>1, <1>3 DEF JobOK
<1>7. LedgerOK'
  BY <1>1, <1>2, <1>4 DEF Inv, Always, TypeOK, LedgerOK, ApplyOK, Owners, Present
<1>8. HeldOK'
  BY <1>1, <1>4 DEF Inv, Always, TypeOK, HeldOK, Held, Owners, Present
<1>9. ApplyOK' /\ RevertOK'
  BY <1>1, <1>2, <1>3, <1>4 DEF Inv, Always, TypeOK, ApplyOK, RevertOK, Held, Owners, Present
<1>10. ASSUME Ordered PROVE Ordered'
  <2>1. PlacedOK' /\ AloneOK'
    BY <1>1, <1>2, <1>3, <1>4, <1>10 DEF Inv, Always, TypeOK, Ordered, PlacedOK, AloneOK, Owners
  <2>2. CompletedOK'
    BY <1>1, <1>3, <1>4, <1>10 DEF Inv, Always, TypeOK, Ordered, CompletedOK, Owners
  <2> QED BY <1>1, <1>10, <2>1, <2>2 DEF Ordered, Open
<1> QED BY <1>1, <1>5, <1>6, <1>7, <1>8, <1>9, <1>10 DEF Inv, Always

\* The claim that marks an entry as pre-existing.
LEMMA MarkKeeps ==
  ASSUME Inv, Mark
  PROVE  Inv'
<1> USE DEF Peer
<1>1. /\ job.op = "apply" /\ job.pc = "mark"
      /\ job.at \in Peer /\ job.key \in Key /\ phase[job.key] = "unknown"
      /\ job' = [job EXCEPT !.pc = "check"]
      /\ mode' = [mode EXCEPT ![job.at][job.key] = "owned"]
      /\ foreign' = [foreign EXCEPT ![job.at] = TRUE]
      /\ seen' = [seen EXCEPT ![job.at] = Present(job.at)]
      /\ UNCHANGED <<entry, phase, completed, lost, wronged, overlap, faults, moves>>
  BY DEF Inv, Always, JobOK, Mark, At, Goto, Claim, NoJob
<1>2. /\ job' \in Job /\ job'.op = "apply" /\ job'.pc = "check" /\ job'.at = job.at
      /\ job'.key = job.key
  BY <1>1 DEF Inv, Always, TypeOK, Job
<1>3. TypeOK'
  BY <1>1, <1>2 DEF Inv, Always, TypeOK, Present
<1>4. JobOK'
  BY <1>1, <1>2 DEF JobOK
<1>5. LedgerOK' /\ HeldOK'
  BY <1>1 DEF Inv, Always, TypeOK, LedgerOK, HeldOK, Held, Owners, Present
<1>6. ApplyOK' /\ RevertOK'
  BY <1>1, <1>2 DEF Inv, Always, TypeOK, ApplyOK, RevertOK, Held, Owners, Present
<1>7. ASSUME Ordered PROVE Ordered'
  <2>1. PlacedOK' /\ AloneOK'
    BY <1>1, <1>2, <1>7 DEF Inv, Always, TypeOK, Ordered, PlacedOK, AloneOK, Owners
  <2>2. CompletedOK'
    BY <1>1, <1>2, <1>7 DEF Inv, Always, TypeOK, Ordered, CompletedOK, Owners
  <2> QED BY <1>1, <1>7, <2>1, <2>2 DEF Ordered, Open
<1> QED BY <1>1, <1>3, <1>4, <1>5, <1>6, <1>7 DEF Inv, Always

\* An operation that joined others looks whether the entry is there.
LEMMA PeekKeeps ==
  ASSUME Inv, Peek
  PROVE  Inv'
<1> USE DEF Peer
<1>1. /\ job.op = "apply" /\ job.pc = "peek"
      /\ job.at \in Peer /\ job.key \in Key /\ phase[job.key] = "unknown"
      /\ UNCHANGED <<entry, mode, foreign, phase, completed, seen, lost, wronged, overlap, faults, moves>>
  BY DEF Inv, Always, JobOK, Peek, At, NoJob, ledger, history
<1>2. PICK pc \in {"check", "restore"} : job' = [job EXCEPT !.pc = pc]
  BY DEF Peek, Goto
<1>3. /\ job' \in Job /\ job'.op = "apply" /\ job'.pc = pc /\ job'.at = job.at
      /\ job'.key = job.key
  BY <1>1, <1>2 DEF Inv, Always, TypeOK, Job
<1>4. TypeOK' /\ JobOK'
  BY <1>1, <1>3 DEF Inv, Always, TypeOK, JobOK
<1>5. LedgerOK' /\ HeldOK' /\ ApplyOK' /\ RevertOK'
  BY <1>1, <1>3 DEF Inv, Always, LedgerOK, HeldOK, ApplyOK, RevertOK, Held, Owners, Present
<1>6. ~Ordered
  BY <1>1 DEF Ordered, AloneOK
<1> QED BY <1>1, <1>4, <1>5, <1>6 DEF Inv, Always

\* What an add does to the set keeps what the ledger and others rely on.
LEMMA AddKeeps ==
  ASSUME Inv, job.at \in Peer, job.op = "apply", job.pc \in {"put", "restore"}, RawAdd(job.at),
         UNCHANGED <<mode, foreign, phase, completed, overlap>>
  PROVE  /\ entry' \in [Peer -> {"none", "plane", "analyst"}] /\ lost' \in [Peer -> BOOLEAN]
         /\ LedgerOK' /\ HeldOK' /\ wronged' # "seen" /\ UNCHANGED <<seen, wronged>>
         /\ entry'[job.at] # "none"
         /\ \A q \in Peer : q # job.at => entry'[q] = entry[q] /\ lost'[q] = lost[q]
         /\ Ordered => \A p \in Peer : entry'[p] = "plane" => Owners(p)' # {} /\ ~foreign'[p]
<1> USE DEF Peer
<1>1. /\ entry' = [entry EXCEPT ![job.at] = IF @ = "none" THEN "plane" ELSE @]
      /\ lost' = [lost EXCEPT ![job.at] = FALSE]
      /\ UNCHANGED <<seen, wronged>>
  BY DEF RawAdd
<1>2. /\ entry' \in [Peer -> {"none", "plane", "analyst"}] /\ lost' \in [Peer -> BOOLEAN]
      /\ entry'[job.at] # "none"
      /\ \A q \in Peer : q # job.at => entry'[q] = entry[q] /\ lost'[q] = lost[q]
  BY <1>1 DEF Inv, Always, TypeOK
<1>3. LedgerOK' /\ HeldOK'
  BY <1>1, <1>2 DEF Inv, Always, LedgerOK, HeldOK, Held, Owners, Present
<1>4. Ordered => \A p \in Peer : entry'[p] = "plane" => Owners(p)' # {} /\ ~foreign'[p]
  BY <1>1, <1>2 DEF Inv, Always, ApplyOK, Ordered, PlacedOK, AloneOK, Owners
<1> QED BY <1>1, <1>2, <1>3, <1>4 DEF Inv, Always

\* The add, on a peer whose ledger has the claim already.
LEMMA PutKeeps ==
  ASSUME Inv, Put
  PROVE  Inv'
<1> USE DEF Peer
<1>1. /\ job.op = "apply" /\ job.pc \in {"put", "restore"}
      /\ job.at \in Peer /\ job.key \in Key /\ phase[job.key] = "unknown"
      /\ RawAdd(job.at)
      /\ UNCHANGED <<mode, foreign, phase, completed, overlap, faults, moves>>
  BY DEF Inv, Always, JobOK, Put, NoJob, ledger
<1>2. PICK pc \in {"own", "check"} : job' = [job EXCEPT !.pc = pc]
  BY DEF Put, Goto
<1>3. /\ job' \in Job /\ job'.op = "apply" /\ job'.pc = pc /\ job'.at = job.at
      /\ job'.key = job.key
  BY <1>1, <1>2 DEF Inv, Always, TypeOK, Job
<1>4. TypeOK' /\ JobOK'
  BY <1>1, <1>3, AddKeeps DEF Inv, Always, TypeOK, JobOK
<1>5. ApplyOK' /\ RevertOK'
  BY <1>1, <1>3, AddKeeps DEF Inv, Always, ApplyOK, RevertOK, Held, Owners, Present
<1>6. ASSUME Ordered PROVE Ordered'
  <2>1. PlacedOK'
    BY <1>1, <1>3, <1>6, AddKeeps DEF PlacedOK
  <2>2. AloneOK' /\ CompletedOK'
    BY <1>1, <1>3, <1>6 DEF Ordered, AloneOK, CompletedOK, Owners
  <2> QED BY <1>1, <1>6, <2>1, <2>2 DEF Ordered, Open
<1> QED BY <1>1, <1>4, <1>5, <1>6, AddKeeps DEF Inv, Always

\* The read-back: compensation, the next peer, or the end of apply.
LEMMA CheckKeeps ==
  ASSUME Inv, Check
  PROVE  Inv'
<1> USE DEF Peer
<1>1. /\ job.op = "apply" /\ job.pc = "check"
      /\ job.at \in Peer /\ job.key \in Key /\ phase[job.key] = "unknown"
      /\ UNCHANGED <<entry, mode, foreign, phase, completed, seen, lost, wronged, overlap, faults, moves>>
  BY DEF Inv, Always, JobOK, Check, At, NoJob, ledger, history
<1>2. LedgerOK' /\ HeldOK' /\ wronged' # "seen"
  BY <1>1 DEF Inv, Always, LedgerOK, HeldOK, Held, Owners, Present
<1>3. CASE Undo
  <2>1. /\ job' \in Job /\ job'.op = "undo" /\ job'.pc = "drop" /\ job'.at = job.at
        /\ job'.key = job.key /\ job'.raised = job.raised
    BY <1>3 DEF Inv, Always, TypeOK, Job, Undo
  <2>2. TypeOK' /\ JobOK' /\ ApplyOK' /\ RevertOK'
    BY <1>1, <2>1 DEF Inv, Always, TypeOK, JobOK, ApplyOK, RevertOK
  <2>3. ASSUME Ordered PROVE Ordered'
    BY <1>1, <2>1, <2>3 DEF Ordered, Open, PlacedOK, AloneOK, CompletedOK, Owners
  <2> QED BY <1>1, <1>2, <2>2, <2>3 DEF Inv, Always
<1>4. CASE Present(job.at) /\ job.at < Peers /\ job' = [job EXCEPT !.pc = "look", !.at = @ + 1]
  <2>1. /\ job' \in Job /\ job'.op = "apply" /\ job'.pc = "look" /\ job'.at = job.at + 1
        /\ job'.key = job.key
    <3>1. job.at \in Nat /\ job.at + 1 \in 0..Peers
      BY <1>1, <1>4, BlocklistAssumption
    <3> QED BY <1>1, <1>4, <3>1 DEF Inv, Always, TypeOK, Job
  <2>2. TypeOK' /\ JobOK' /\ ApplyOK' /\ RevertOK'
    BY <1>1, <1>4, <2>1, BlocklistAssumption
    DEF Inv, Always, TypeOK, JobOK, ApplyOK, RevertOK, Held, Owners, Present
  <2>3. ASSUME Ordered PROVE Ordered'
    <3>1. Owners(job.at + 1) = {} /\ ~foreign[job.at + 1]
      <4>1. job.at + 1 \in Peer /\ job.key \notin Owners(job.at + 1)
        BY <1>1, <1>4, <2>3, BlocklistAssumption DEF Ordered, AloneOK
      <4>2. \A k \in Owners(job.at + 1) : k = job.key
        BY <1>1, <2>3, <4>1 DEF Inv, Always, LedgerOK, Ordered, Open, Owners
      <4> QED BY <4>1, <4>2 DEF Inv, Always, LedgerOK
    <3>2. PlacedOK' /\ AloneOK' /\ CompletedOK'
      BY <1>1, <2>1, <2>3, <3>1, BlocklistAssumption
      DEF Ordered, PlacedOK, AloneOK, CompletedOK, Owners
    <3> QED BY <1>1, <2>3, <3>2 DEF Ordered, Open
  <2> QED BY <1>1, <1>2, <2>2, <2>3 DEF Inv, Always
<1>5. CASE Present(job.at) /\ job.at = Peers /\ Goto("done")
  <2>1. /\ job' \in Job /\ job'.op = "apply" /\ job'.pc = "done" /\ job'.at = job.at
        /\ job'.key = job.key
    BY <1>1, <1>5 DEF Inv, Always, TypeOK, Job, Goto
  <2>2. TypeOK' /\ JobOK' /\ ApplyOK' /\ RevertOK'
    BY <1>1, <1>5, <2>1 DEF Inv, Always, TypeOK, JobOK, ApplyOK, RevertOK, Held, Owners, Present
  <2>3. ASSUME Ordered PROVE Ordered'
    BY <1>1, <2>1, <2>3 DEF Ordered, Open, PlacedOK, AloneOK, CompletedOK, Owners
  <2> QED BY <1>1, <1>2, <2>2, <2>3 DEF Inv, Always
<1> QED BY <1>3, <1>4, <1>5 DEF Check

\* A call or commit of apply raises, with or without its effect.
LEMMA ApplyRaisesKeeps ==
  ASSUME Inv, ApplyRaises
  PROVE  Inv'
<1> USE DEF Peer
<1>1. /\ job.op = "apply" /\ job.at \in Peer /\ job.key \in Key /\ phase[job.key] = "unknown"
      /\ faults' = faults + 1
      /\ UNCHANGED <<mode, foreign, phase, completed, overlap, moves>>
      /\ \/ UNCHANGED <<entry, seen, lost, wronged>>
         \/ job.pc \in {"put", "restore"} /\ RawAdd(job.at)
  BY DEF Inv, Always, JobOK, ApplyRaises, Fault, NoJob, ledger, history
<1>2. /\ job' \in Job /\ job'.op = "undo" /\ job'.pc = "drop" /\ job'.at = job.at
      /\ job'.key = job.key /\ job'.raised = job.raised
  BY DEF Inv, Always, TypeOK, Job, ApplyRaises, Undo
<1>3. /\ entry' \in [Peer -> {"none", "plane", "analyst"}] /\ lost' \in [Peer -> BOOLEAN]
      /\ UNCHANGED <<seen, wronged>>
      /\ Ordered => \A p \in Peer : entry'[p] = "plane" => Owners(p)' # {} /\ ~foreign'[p]
  <2>1. CASE UNCHANGED <<entry, seen, lost, wronged>>
    BY <1>1, <2>1 DEF Inv, Always, TypeOK, Ordered, PlacedOK, Owners
  <2>2. CASE job.pc \in {"put", "restore"} /\ RawAdd(job.at)
    BY <1>1, <2>2, AddKeeps
  <2> QED BY <1>1, <2>1, <2>2
<1>4. LedgerOK' /\ HeldOK'
  BY <1>1, AddKeeps DEF Inv, Always, LedgerOK, HeldOK, Held, Owners, Present
<1>5. TypeOK' /\ JobOK' /\ ApplyOK' /\ RevertOK'
  BY <1>1, <1>2, <1>3 DEF Inv, Always, TypeOK, JobOK, ApplyOK, RevertOK
<1>6. ASSUME Ordered PROVE Ordered'
  <2>1. PlacedOK'
    BY <1>2, <1>3, <1>6 DEF PlacedOK
  <2>2. AloneOK' /\ CompletedOK'
    BY <1>1, <1>2, <1>6 DEF Ordered, AloneOK, CompletedOK, Owners
  <2> QED BY <1>1, <1>6, <2>1, <2>2 DEF Ordered, Open
<1> QED BY <1>1, <1>3, <1>4, <1>5, <1>6 DEF Inv, Always
-----------------------------------------------------------------------------
(* Verification and the release of claims.                                 *)

\* A caller that starts a verification.
LEMMA StartVerifyKeeps ==
  ASSUME Inv, NEW k \in Key, StartVerify(k)
  PROVE  Inv'
<1> USE DEF Peer
<1>1. /\ job = NoJob /\ phase[k] = "applied"
      /\ job' = [op |-> "verify", pc |-> "read", key |-> k, at |-> 1,
                 tag |-> "absent", failed |-> FALSE, raised |-> FALSE]
      /\ UNCHANGED <<entry, mode, foreign, phase, completed, seen, lost, wronged, overlap, faults, moves>>
  BY DEF StartVerify, NoJob, ledger, history
<1>2. job' \in Job
  BY <1>1, BlocklistAssumption DEF Job
<1>3. TypeOK' /\ JobOK'
  BY <1>1, <1>2, BlocklistAssumption DEF Inv, Always, TypeOK, JobOK
<1>4. LedgerOK' /\ HeldOK' /\ ApplyOK' /\ RevertOK'
  BY <1>1 DEF Inv, Always, LedgerOK, HeldOK, ApplyOK, RevertOK, Held, Owners, Present
<1>5. ASSUME Ordered PROVE Ordered'
  BY <1>1, <1>5 DEF Ordered, Open, PlacedOK, AloneOK, CompletedOK, Owners
<1> QED BY <1>1, <1>3, <1>4, <1>5 DEF Inv, Always

\* Verification changes nothing but its own position.
LEMMA ReadKeeps ==
  ASSUME Inv, Read
  PROVE  Inv'
<1> USE DEF Peer
<1>1. /\ job.op = "verify" /\ job.at \in Peer /\ job.key \in Key /\ phase[job.key] = "applied"
      /\ UNCHANGED <<entry, mode, foreign, phase, completed, seen, lost, wronged, overlap, moves>>
  BY DEF Inv, Always, JobOK, Read, At, NoJob, ledger, history
<1>2. faults' \in Nat
  BY DEF Inv, Always, TypeOK, Read, Fault
<1>3. /\ job' \in Job /\ job'.op = "verify" /\ job'.pc \in {"read", "done"} /\ job'.at \in Peer
      /\ job'.key = job.key
  <2>1. job.at \in Nat /\ (job.at < Peers => job.at + 1 \in Peer /\ job.at + 1 \in 0..Peers)
    BY <1>1, BlocklistAssumption
  <2>2. CASE job.at < Peers /\ job' = [job EXCEPT !.failed = @ \/ ~Present(job.at), !.at = @ + 1]
    BY <1>1, <2>1, <2>2 DEF Inv, Always, TypeOK, Job, Read, At
  <2>3. CASE job' = [job EXCEPT !.failed = @ \/ ~Present(job.at), !.pc = "done"]
    BY <1>1, <2>3 DEF Inv, Always, TypeOK, Job
  <2>4. CASE job' = [job EXCEPT !.failed = TRUE, !.raised = TRUE, !.pc = "done"]
    BY <1>1, <2>4 DEF Inv, Always, TypeOK, Job
  <2> QED BY <2>2, <2>3, <2>4 DEF Read
<1>4. TypeOK' /\ JobOK'
  BY <1>1, <1>2, <1>3 DEF Inv, Always, TypeOK, JobOK
<1>5. LedgerOK' /\ HeldOK' /\ ApplyOK' /\ RevertOK'
  BY <1>1, <1>3 DEF Inv, Always, LedgerOK, HeldOK, ApplyOK, RevertOK, Held, Owners, Present
<1>6. ASSUME Ordered PROVE Ordered'
  BY <1>1, <1>3, <1>6 DEF Ordered, Open, PlacedOK, AloneOK, CompletedOK, Owners
<1> QED BY <1>1, <1>4, <1>5, <1>6 DEF Inv, Always

\* A caller that starts a revert, also of an apply whose outcome it lost.
LEMMA StartRevertKeeps ==
  ASSUME Inv, NEW k \in Key, StartRevert(k)
  PROVE  Inv'
<1> USE DEF Peer
<1>1. /\ job = NoJob /\ phase[k] \in {"unknown", "applied", "verified"}
      /\ job' = [op |-> "revert", pc |-> "drop", key |-> k, at |-> 1,
                 tag |-> "absent", failed |-> FALSE, raised |-> FALSE]
      /\ phase' = [phase EXCEPT ![k] = "unknown"]
      /\ UNCHANGED <<entry, mode, foreign, completed, seen, lost, wronged, overlap, faults, moves>>
  BY DEF StartRevert, NoJob, ledger, history
<1>2. job' \in Job
  BY <1>1, BlocklistAssumption DEF Job
<1>3. TypeOK' /\ JobOK'
  BY <1>1, <1>2, BlocklistAssumption DEF Inv, Always, TypeOK, JobOK
<1>4. LedgerOK' /\ HeldOK'
  BY <1>1 DEF Inv, Always, TypeOK, LedgerOK, HeldOK, Held, Owners, Present
<1>5. ApplyOK' /\ RevertOK'
  BY <1>1 DEF ApplyOK, RevertOK
<1>6. ASSUME Ordered PROVE Ordered'
  <2>1. \A a, o \in Key : Open(a)' /\ Open(o)' => a = o
    BY <1>1, <1>6 DEF Inv, Always, TypeOK, Ordered, Open
  <2>2. PlacedOK' /\ AloneOK' /\ CompletedOK'
    BY <1>1, <1>6 DEF Inv, Always, TypeOK, Ordered, PlacedOK, AloneOK, CompletedOK, Owners
  <2> QED BY <2>1, <2>2 DEF Ordered
<1> QED BY <1>1, <1>3, <1>4, <1>5, <1>6 DEF Inv, Always

\* Where a call that releases claims stands.
LEMMA Releasing ==
  ASSUME Inv, job.pc \in {"drop", "forget", "confirm"}
  PROVE  /\ job.op \in {"undo", "revert"} /\ job.at \in Peer /\ job.key \in Key
         /\ phase[job.key] = "unknown"
         /\ job.op = "undo" => job.pc # "confirm"
BY DEF Inv, Always, JobOK, NoJob

\* While calls do not overlap, only the releasing operation has claims, and what
\* the plane placed is its own.
LEMMA ReleasingAlone ==
  ASSUME Inv, Ordered, job.pc \in {"drop", "forget", "confirm"}
  PROVE  \A p \in Peer : /\ Owners(p) \ {job.key} = {}
                         /\ job.key \notin Owners(p) => ~foreign[p] /\ entry[p] # "plane"
<1>1. \A p \in Peer : \A k \in Owners(p) : k = job.key
  BY Releasing DEF Inv, Always, LedgerOK, Ordered, Open, Owners
<1>2. \A p \in Peer : job.key \notin Owners(p) => Owners(p) = {}
  BY <1>1
<1> QED BY <1>1, <1>2 DEF Inv, Always, LedgerOK, Ordered, PlacedOK

\* Where the release at one peer leads.
LEMMA ReleasedJob ==
  ASSUME TypeOK, job.at \in Peer, job.op \in {"undo", "revert"},
         NEW tag \in {"absent", "kept", "removed"}, Released(tag)
  PROVE  /\ job' \in Job
         /\ job'.op = job.op /\ job'.key = job.key
         /\ job'.failed = job.failed /\ job'.raised = job.raised
         /\ job.op = "revert" => job'.pc = "confirm" /\ job'.at = job.at
         /\ job.op = "undo" /\ job.at > 1 => job'.pc = "drop" /\ job'.at = job.at - 1
         /\ job.op = "undo" /\ ~(job.at > 1) => job'.pc = "done" /\ job'.at = job.at
<1>1. CASE job.op = "revert"
  BY <1>1 DEF TypeOK, Job, Released
<1>2. CASE job.op = "undo" /\ job.at > 1
  <2>1. job.at \in Nat /\ job.at - 1 \in 0..Peers
    BY <1>2, BlocklistAssumption DEF Peer
  <2> QED BY <1>2, <2>1 DEF TypeOK, Job, Released
<1>3. CASE job.op = "undo" /\ ~(job.at > 1)
  BY <1>3 DEF TypeOK, Job, Released
<1> QED BY <1>1, <1>2, <1>3

\* Letting go of the claim at one peer, where it is not the plane's entry that
\* would be left behind.
LEMMA ReleaseKeeps ==
  ASSUME Inv, job.pc \in {"drop", "forget"},
         NEW tag \in {"absent", "kept", "removed"}, Released(tag),
         mode' \in [Peer -> [Key -> {"no", "adding", "owned"}]],
         foreign' \in [Peer -> BOOLEAN],
         \A q \in Peer, k \in Key :
           mode'[q][k] # "no" <=> mode[q][k] # "no" /\ ~(q = job.at /\ k = job.key),
         \A q \in Peer : q # job.at => foreign'[q] = foreign[q],
         foreign'[job.at] <=> foreign[job.at] /\ Owners(job.at) \ {job.key} # {},
         Ordered => entry[job.at] # "plane",
         UNCHANGED <<entry, phase, history, faults, moves>>
  PROVE  Inv'
<1> USE DEF Peer
<1>1. /\ job.op \in {"undo", "revert"} /\ job.at \in Peer /\ job.key \in Key
      /\ phase[job.key] = "unknown"
  BY Releasing
<1>2. /\ job' \in Job
      /\ job'.op = job.op /\ job'.key = job.key
      /\ job'.failed = job.failed /\ job'.raised = job.raised
      /\ job.op = "revert" => job'.pc = "confirm" /\ job'.at = job.at
      /\ job.op = "undo" /\ job.at > 1 => job'.pc = "drop" /\ job'.at = job.at - 1
      /\ job.op = "undo" /\ ~(job.at > 1) => job'.pc = "done" /\ job'.at = job.at
  BY <1>1, ReleasedJob DEF Inv, Always
<1>3. UNCHANGED <<completed, seen, lost, wronged, overlap>>
  BY DEF history
<1>4. TypeOK'
  BY <1>2, <1>3 DEF Inv, Always, TypeOK
<1>5. JobOK'
  BY <1>1, <1>2, BlocklistAssumption DEF JobOK
<1>6. LedgerOK'
  BY <1>1, <1>3 DEF Inv, Always, LedgerOK, Owners, Present
<1>7. HeldOK'
  BY <1>1, <1>3 DEF Inv, Always, HeldOK, Held, Owners, Present
<1>8. ApplyOK' /\ RevertOK'
  BY <1>1, <1>2 DEF Inv, Always, ApplyOK, RevertOK, Owners
<1>9. ASSUME Ordered PROVE Ordered'
  <2>1. PlacedOK'
    BY <1>1, <1>2, <1>9 DEF Ordered, PlacedOK, Owners
  <2>2. AloneOK'
    BY <1>1, <1>2, <1>9 DEF Ordered, AloneOK, Owners
  <2>3. CompletedOK'
    BY <1>1, <1>2, <1>3, <1>9 DEF Ordered, CompletedOK, Owners
  <2> QED BY <1>9, <2>1, <2>2, <2>3 DEF Ordered, Open
<1> QED BY <1>3, <1>4, <1>5, <1>6, <1>7, <1>8, <1>9 DEF Inv, Always

\* What release commits to the ledger.
LEMMA ReleaseCommits ==
  ASSUME TypeOK, job.at \in Peer, job.key \in Key, Release(job.at, job.key)
  PROVE  /\ mode' \in [Peer -> [Key -> {"no", "adding", "owned"}]]
         /\ foreign' \in [Peer -> BOOLEAN]
         /\ \A q \in Peer, k \in Key :
              mode'[q][k] # "no" <=> mode[q][k] # "no" /\ ~(q = job.at /\ k = job.key)
         /\ \A q \in Peer : q # job.at => foreign'[q] = foreign[q]
         /\ foreign'[job.at] <=> foreign[job.at] /\ Owners(job.at) \ {job.key} # {}
<1>1. /\ mode' = [mode EXCEPT ![job.at][job.key] = "no"]
      /\ foreign' = [foreign EXCEPT ![job.at] = @ /\ Owners(job.at) \ {job.key} # {}]
  BY DEF Release
<1> QED BY <1>1 DEF TypeOK

\* Taking away an entry that only the releasing operation claims.
LEMMA RemoveKeeps ==
  ASSUME Inv, job.pc = "drop", job.key \in Owners(job.at), ~HeldByOthers(job.at, job.key),
         RawRemove(job.at), UNCHANGED <<mode, foreign, phase, completed, overlap>>
  PROVE  /\ entry' \in [Peer -> {"none", "plane", "analyst"}] /\ seen' \in [Peer -> BOOLEAN]
         /\ wronged' \in {"no", "unseen"} /\ lost' = lost
         /\ entry'[job.at] = "none" /\ \A q \in Peer : q # job.at => entry'[q] = entry[q]
         /\ LedgerOK' /\ HeldOK'
<1> USE DEF Peer
<1>1. /\ job.op \in {"undo", "revert"} /\ job.at \in Peer /\ job.key \in Key
      /\ phase[job.key] = "unknown"
  BY Releasing
<1>2. /\ entry' = [entry EXCEPT ![job.at] = "none"]
      /\ seen' = [seen EXCEPT ![job.at] = FALSE]
      /\ lost' = lost
      /\ wronged' \in {wronged, "unseen"} \/ seen[job.at]
  BY DEF RawRemove
<1>3. Owners(job.at) \ {job.key} = {} /\ ~foreign[job.at] /\ ~seen[job.at]
  BY <1>1 DEF Inv, Always, LedgerOK, HeldByOthers
<1>4. wronged' \in {"no", "unseen"}
  BY <1>2, <1>3 DEF Inv, Always, TypeOK
<1>5. /\ entry' \in [Peer -> {"none", "plane", "analyst"}] /\ seen' \in [Peer -> BOOLEAN]
      /\ entry'[job.at] = "none" /\ \A q \in Peer : q # job.at => entry'[q] = entry[q]
  BY <1>1, <1>2 DEF Inv, Always, TypeOK
<1>6. LedgerOK'
  BY <1>1, <1>2, <1>3, <1>5 DEF Inv, Always, TypeOK, LedgerOK, Owners, Present
<1>7. HeldOK'
  <2>1. \A k \in Key : phase[k] \in {"applied", "verified"} => k \notin Owners(job.at)
    BY <1>1, <1>3
  <2> QED BY <1>1, <1>2, <1>5, <2>1 DEF Inv, Always, HeldOK, Held, Owners, Present
<1> QED BY <1>2, <1>4, <1>5, <1>6, <1>7

\* The release of one peer: nothing to do, a claim given up, or the removal.
LEMMA DropKeeps ==
  ASSUME Inv, Drop
  PROVE  Inv'
<1> USE DEF Peer
<1>1. /\ job.op \in {"undo", "revert"} /\ job.at \in Peer /\ job.key \in Key
      /\ phase[job.key] = "unknown" /\ job.pc = "drop"
      /\ UNCHANGED <<phase, faults, moves>>
  BY Releasing DEF Drop
<1>2. CASE job.key \notin Owners(job.at) /\ Released("absent") /\ UNCHANGED <<entry, ledger, history>>
  <2>1. mode' = mode /\ foreign' = foreign
    BY <1>2 DEF ledger
  <2>2. mode[job.at][job.key] = "no" /\ Owners(job.at) \ {job.key} = Owners(job.at)
    BY <1>1, <1>2 DEF Owners
  <2>3. foreign[job.at] => Owners(job.at) # {}
    BY <1>1 DEF Inv, Always, LedgerOK
  <2>4. Ordered => entry[job.at] # "plane"
    BY <1>1, <1>2, ReleasingAlone
  <2> QED BY <1>1, <1>2, <2>1, <2>2, <2>3, <2>4, ReleaseKeeps DEF Inv, Always, TypeOK
<1>3. CASE /\ job.key \in Owners(job.at) /\ HeldByOthers(job.at, job.key)
           /\ Release(job.at, job.key) /\ Released("kept") /\ UNCHANGED <<entry, history>>
  <2>1. Ordered => entry[job.at] # "plane"
    BY <1>1, <1>3, ReleasingAlone DEF HeldByOthers, Ordered, PlacedOK
  <2> QED BY <1>1, <1>3, <2>1, ReleaseCommits, ReleaseKeeps DEF Inv, Always
<1>4. CASE /\ job.key \in Owners(job.at) /\ ~HeldByOthers(job.at, job.key)
           /\ RawRemove(job.at) /\ Goto("forget") /\ UNCHANGED <<ledger, completed, overlap>>
  <2>1. UNCHANGED <<mode, foreign, phase, completed, overlap>>
    BY <1>1, <1>4 DEF ledger
  <2>2. /\ job' \in Job /\ job'.op = job.op /\ job'.key = job.key /\ job'.at = job.at
        /\ job'.failed = job.failed /\ job'.raised = job.raised /\ job'.pc = "forget"
    BY <1>4 DEF Inv, Always, TypeOK, Job, Goto
  <2>3. /\ entry' \in [Peer -> {"none", "plane", "analyst"}] /\ seen' \in [Peer -> BOOLEAN]
        /\ wronged' \in {"no", "unseen"} /\ lost' = lost
        /\ entry'[job.at] = "none" /\ \A q \in Peer : q # job.at => entry'[q] = entry[q]
        /\ LedgerOK' /\ HeldOK'
    BY <1>1, <1>4, <2>1, RemoveKeeps
  <2>4. TypeOK' /\ JobOK'
    BY <1>1, <2>1, <2>2, <2>3 DEF Inv, Always, TypeOK, JobOK
  <2>5. ApplyOK' /\ RevertOK'
    BY <1>1, <2>1, <2>2 DEF Inv, Always, ApplyOK, RevertOK, Owners
  <2>6. ASSUME Ordered PROVE Ordered'
    <3>1. PlacedOK' /\ AloneOK'
      BY <1>1, <2>1, <2>2, <2>3, <2>6 DEF Ordered, PlacedOK, AloneOK, Owners
    <3>2. CompletedOK'
      BY <1>1, <1>4, <2>1, <2>2, <2>6 DEF Ordered, CompletedOK, Owners
    <3> QED BY <2>1, <2>6, <3>1, <3>2 DEF Ordered, Open
  <2> QED BY <2>1, <2>3, <2>4, <2>5, <2>6 DEF Inv, Always
<1> QED BY <1>2, <1>3, <1>4 DEF Drop

\* The release after the removal.
LEMMA ForgetKeeps ==
  ASSUME Inv, Forget
  PROVE  Inv'
<1>1. job.pc = "forget" /\ job.at \in Peer /\ job.key \in Key
  BY Releasing DEF Forget
<1>2. Ordered => entry[job.at] # "plane"
  BY <1>1 DEF Ordered, PlacedOK
<1> QED BY <1>1, <1>2, ReleaseCommits, ReleaseKeeps DEF Inv, Always, Forget

\* The next peer of a revert.
LEMMA NextPeerJob ==
  ASSUME TypeOK, job.at \in Peer, NEW f \in BOOLEAN, NEW r \in BOOLEAN, NextPeer(f, r)
  PROVE  /\ job' \in Job /\ job'.op = job.op /\ job'.key = job.key
         /\ job'.failed <=> job.failed \/ f
         /\ job'.raised <=> job.raised \/ r
         /\ job.at < Peers => job'.pc = "drop" /\ job'.at = job.at + 1
         /\ ~(job.at < Peers) => job'.pc = "done" /\ job'.at = job.at /\ job.at = Peers
<1>1. job.at \in Nat /\ (job.at < Peers => job.at + 1 \in 0..Peers) /\ (~(job.at < Peers) => job.at = Peers)
  BY BlocklistAssumption DEF Peer
<1>2. job.failed \in BOOLEAN /\ job.raised \in BOOLEAN
  BY DEF TypeOK, Job
<1>3. CASE job.at < Peers
  <2>1. job' = [job EXCEPT !.failed = @ \/ f, !.raised = @ \/ r, !.pc = "drop", !.at = @ + 1]
    BY <1>3 DEF NextPeer
  <2> QED BY <1>1, <1>2, <1>3, <2>1 DEF TypeOK, Job
<1>4. CASE ~(job.at < Peers)
  <2>1. job' = [job EXCEPT !.failed = @ \/ f, !.raised = @ \/ r, !.pc = "done"]
    BY <1>4 DEF NextPeer, TypeOK, Job
  <2> QED BY <1>1, <1>2, <1>4, <2>1 DEF TypeOK, Job
<1> QED BY <1>3, <1>4

\* The read-back of a revert: what is still there is not of the plane.
LEMMA ConfirmKeeps ==
  ASSUME Inv, Confirm
  PROVE  Inv'
<1> USE DEF Peer
<1>1. /\ job.op = "revert" /\ job.pc = "confirm" /\ job.at \in Peer /\ job.key \in Key
      /\ phase[job.key] = "unknown"
      /\ UNCHANGED <<entry, mode, foreign, phase, completed, seen, lost, wronged, overlap, faults, moves>>
  BY Releasing DEF Confirm, At, ledger, history
<1> DEFINE f == Present(job.at) /\ job.tag # "kept"
<1>2. /\ job' \in Job /\ job'.op = job.op /\ job'.key = job.key
      /\ job'.failed <=> job.failed \/ f
      /\ job'.raised <=> job.raised
      /\ job.at < Peers => job'.pc = "drop" /\ job'.at = job.at + 1
      /\ ~(job.at < Peers) => job'.pc = "done" /\ job'.at = job.at /\ job.at = Peers
  BY <1>1, NextPeerJob DEF Inv, Always, Confirm
<1>3. TypeOK' /\ JobOK'
  BY <1>1, <1>2, BlocklistAssumption DEF Inv, Always, TypeOK, JobOK
<1>4. LedgerOK' /\ HeldOK' /\ ApplyOK'
  BY <1>1, <1>2 DEF Inv, Always, LedgerOK, HeldOK, ApplyOK, Held, Owners, Present
<1>5. RevertOK'
  BY <1>1, <1>2 DEF Inv, Always, RevertOK, Owners
<1>6. ASSUME Ordered PROVE Ordered'
  <2>1. PlacedOK' /\ AloneOK'
    BY <1>1, <1>2, <1>6 DEF Ordered, PlacedOK, AloneOK, Owners
  <2>2. job.key \in completed /\ f => entry[job.at] = "analyst"
    <3>1. job.key \in completed => job.key \notin Owners(job.at)
      BY <1>1, <1>6 DEF Ordered, CompletedOK
    <3>2. job.key \in completed => entry[job.at] # "plane"
      BY <1>1, <1>6, <3>1, ReleasingAlone
    <3> QED BY <1>1, <3>2 DEF Inv, Always, TypeOK, Present
  <2>3. CompletedOK'
    <3>1. job.key \in completed /\ ~job'.raised /\ job'.failed =>
            \E p \in Peer : entry[p] = "analyst" \/ lost[p]
      BY <1>1, <1>2, <1>6, <2>2 DEF Ordered, CompletedOK
    <3> QED BY <1>1, <1>2, <1>6, <3>1 DEF Ordered, CompletedOK, Owners
  <2> QED BY <1>1, <1>6, <2>1, <2>3 DEF Ordered, Open
<1> QED BY <1>1, <1>3, <1>4, <1>5, <1>6 DEF Inv, Always

\* A peer raises during a revert or a compensation.
LEMMA ReleaseRaisesKeeps ==
  ASSUME Inv, ReleaseRaises
  PROVE  Inv'
<1> USE DEF Peer
<1>1. /\ job.op \in {"undo", "revert"} /\ job.at \in Peer /\ job.key \in Key
      /\ phase[job.key] = "unknown"
      /\ UNCHANGED <<mode, foreign, phase, completed, overlap, moves>>
      /\ faults' = faults + 1
      /\ job.pc \in {"drop", "forget", "confirm"}
  BY Releasing DEF ReleaseRaises, Fault, ledger, history
<1>2. /\ job' \in Job /\ job'.op = job.op /\ job'.key = job.key /\ job'.raised
      /\ job.op = "revert" => job'.failed
      /\ job'.at \in Peer /\ job'.pc \in {"drop", "done"}
  <2>1. CASE job.op = "revert" /\ RevertPeerRaises
    <3>1. NextPeer(TRUE, TRUE) /\ TypeOK
      BY <2>1 DEF RevertPeerRaises, Inv, Always
    <3>2. job.at < Peers => job.at + 1 \in Peer
      BY <1>1, BlocklistAssumption
    <3> QED BY <1>1, <2>1, <3>1, <3>2, NextPeerJob
  <2>2. CASE job.op = "undo" /\ UndoPeerRaises
    <3>1. CASE job.at > 1
      <4>1. job.at - 1 \in 0..Peers /\ job.at - 1 \in Peer
        BY <1>1, <3>1, BlocklistAssumption
      <4>2. job' = [job EXCEPT !.raised = TRUE, !.pc = "drop", !.at = @ - 1]
        BY <2>2, <3>1 DEF UndoPeerRaises
      <4> QED BY <2>2, <4>1, <4>2 DEF Inv, Always, TypeOK, Job
    <3>2. CASE ~(job.at > 1)
      <4>1. job' = [job EXCEPT !.raised = TRUE, !.pc = "done"]
        BY <2>2, <3>2 DEF UndoPeerRaises, Inv, Always, TypeOK, Job
      <4> QED BY <1>1, <2>2, <4>1 DEF Inv, Always, TypeOK, Job
    <3> QED BY <3>1, <3>2
  <2> QED BY <2>1, <2>2 DEF ReleaseRaises
<1>3. /\ entry' \in [Peer -> {"none", "plane", "analyst"}] /\ seen' \in [Peer -> BOOLEAN]
      /\ wronged' \in {"no", "unseen"} /\ lost' = lost
      /\ LedgerOK' /\ HeldOK'
      /\ \A q \in Peer : entry'[q] \in {"none", entry[q]}
      /\ entry' = entry \/ job.key \in Owners(job.at)
  <2>1. CASE UNCHANGED <<entry, history>>
    BY <1>1, <2>1 DEF Inv, Always, TypeOK, LedgerOK, HeldOK, Held, Owners, Present, history
  <2>2. CASE /\ job.pc = "drop" /\ job.key \in Owners(job.at) /\ ~HeldByOthers(job.at, job.key)
             /\ RawRemove(job.at)
    BY <1>1, <2>2, RemoveKeeps
  <2> QED BY <2>1, <2>2 DEF ReleaseRaises
<1>4. TypeOK' /\ JobOK'
  BY <1>1, <1>2, <1>3 DEF Inv, Always, TypeOK, JobOK
<1>5. ApplyOK' /\ RevertOK'
  BY <1>1, <1>2 DEF ApplyOK, RevertOK
<1>6. ASSUME Ordered PROVE Ordered'
  <2>1. PlacedOK' /\ AloneOK'
    BY <1>1, <1>2, <1>3, <1>6 DEF Ordered, PlacedOK, AloneOK, Owners
  <2>2. CompletedOK'
    BY <1>1, <1>2, <1>6 DEF Ordered, CompletedOK, Owners
  <2> QED BY <1>1, <1>6, <2>1, <2>2 DEF Ordered, Open
<1> QED BY <1>1, <1>3, <1>4, <1>5, <1>6 DEF Inv, Always

\* What a call that has come to its end has achieved.
LEMMA DoneMeans ==
  ASSUME Inv, job.pc = "done"
  PROVE  /\ job.key \in Key /\ job.op \in {"apply", "undo", "verify", "revert"}
         /\ job.op = "apply" => \A p \in Peer : Held(job.key, p)
         /\ job.op = "verify" => \A p \in Peer : Held(job.key, p)
         /\ job.op = "revert" /\ ~job.failed => \A p \in Peer : job.key \notin Owners(p)
<1>1. /\ job.key \in Key /\ job.op \in {"apply", "undo", "verify", "revert"} /\ job.at \in Peer
      /\ job.op = "verify" => phase[job.key] = "applied"
  BY DEF Inv, Always, JobOK, NoJob
<1>2. \A p \in Peer : p \in Nat /\ (p < Peers \/ p = Peers)
  BY BlocklistAssumption DEF Peer
<1>3. job.op = "apply" => \A p \in Peer : Held(job.key, p)
  BY <1>1, <1>2 DEF Inv, Always, ApplyOK
<1>4. job.op = "verify" => \A p \in Peer : Held(job.key, p)
  BY <1>1 DEF Inv, Always, HeldOK
<1>5. job.op = "revert" /\ ~job.failed => \A p \in Peer : job.key \notin Owners(p)
  BY <1>1, <1>2 DEF Inv, Always, RevertOK
<1> QED BY <1>1, <1>3, <1>4, <1>5

\* A call ends, with a recorded outcome or without one.
LEMMA EndKeeps ==
  ASSUME Inv, Finish \/ Crash
  PROVE  Inv'
<1> USE DEF Peer
<1>1. /\ job' = NoJob /\ faults' \in Nat
      /\ UNCHANGED <<entry, mode, foreign, seen, lost, wronged, overlap, moves>>
  BY DEF Inv, Always, TypeOK, Finish, Crash, Fault, ledger
<1>2. job # NoJob /\ job.key \in Key /\ job.op \in {"apply", "undo", "verify", "revert"}
      /\ phase[job.key] = IF job.op = "verify" THEN "applied" ELSE "unknown"
  BY DEF Inv, Always, JobOK, NoJob, Finish, Crash
<1>3. PICK ph \in {"unknown", "applied", "verified", "ended"} :
        /\ phase' = [phase EXCEPT ![job.key] = ph]
        /\ ph \in {"applied", "verified"} => \A p \in Peer : Held(job.key, p)
        /\ ph \in {"applied", "verified"} => job.op \in {"apply", "verify"}
        /\ ph = "ended" => \A p \in Peer : job.key \notin Owners(p)
  <2>1. CASE Finish
    <3>1. phase' = [phase EXCEPT ![job.key] = Outcome] /\ job.pc = "done"
      BY <2>1 DEF Finish
    <3>2. /\ Outcome \in {"unknown", "applied", "verified", "ended"}
          /\ Outcome = "ended" => job.op = "revert" /\ ~job.failed
          /\ Outcome \in {"applied", "verified"} => job.op \in {"apply", "verify"}
      BY <1>2 DEF Outcome
    <3> QED BY <3>1, <3>2, DoneMeans
  <2>2. CASE Crash
    <3>1. phase' = [phase EXCEPT ![job.key] = IF job.op = "verify" THEN @ ELSE "unknown"]
      BY <2>2 DEF Crash
    <3>2. CASE job.op = "verify"
      <4>1. phase' = [phase EXCEPT ![job.key] = "applied"]
        BY <1>2, <3>1, <3>2
      <4> QED BY <1>2, <3>2, <4>1 DEF Inv, Always, HeldOK
    <3>3. CASE job.op # "verify"
      <4>1. phase' = [phase EXCEPT ![job.key] = "unknown"]
        BY <3>1, <3>3
      <4> QED BY <4>1
    <3> QED BY <3>2, <3>3
  <2> QED BY <2>1, <2>2
<1>4. /\ completed' \in SUBSET Key
      /\ \A k \in completed' : k \in completed \/
           (k = job.key /\ job.op = "revert" /\ \A p \in Peer : k \notin Owners(p))
  <2>1. CASE Reported /\ job.pc = "done"
    BY <1>2, <2>1, DoneMeans DEF Inv, Always, TypeOK, Reported
  <2>2. CASE completed' = completed
    BY <2>2 DEF Inv, Always, TypeOK
  <2> QED BY <2>1, <2>2 DEF Finish, Crash
<1>5. job' \in Job
  BY <1>1, BlocklistAssumption DEF NoJob, Job
<1>6. TypeOK' /\ JobOK'
  BY <1>1, <1>2, <1>3, <1>4, <1>5 DEF Inv, Always, TypeOK, JobOK
<1>7. LedgerOK'
  BY <1>1, <1>2, <1>3 DEF Inv, Always, TypeOK, LedgerOK, Owners, Present
<1>8. HeldOK'
  BY <1>1, <1>2, <1>3 DEF Inv, Always, TypeOK, HeldOK, Held, Owners, Present
<1>9. ApplyOK' /\ RevertOK'
  BY <1>1 DEF ApplyOK, RevertOK, NoJob
<1>10. ASSUME Ordered PROVE Ordered'
  <2>1. \A a, o \in Key : Open(a)' /\ Open(o)' => a = o
    <3>1. \A k \in Key : Open(k)' => Open(k)
      BY <1>2, <1>3 DEF Inv, Always, TypeOK, Open
    <3> QED BY <1>10, <3>1 DEF Ordered
  <2>2. PlacedOK' /\ AloneOK'
    BY <1>1, <1>10 DEF Ordered, PlacedOK, AloneOK, NoJob, Owners
  <2>3. \A k \in completed' : \A p \in Peer : k \notin Owners(p)'
    BY <1>1, <1>4, <1>10 DEF Ordered, CompletedOK, Owners
  <2>4. \A k \in completed' : phase'[k] \in {"unknown", "ended"}
    <3>1. job.key \in completed => job.op = "revert"
      BY <1>2, <1>10 DEF Ordered, CompletedOK
    <3> QED BY <1>2, <1>3, <1>4, <1>10, <3>1 DEF Inv, Always, TypeOK, Ordered, CompletedOK
  <2>5. CompletedOK'
    BY <1>1, <2>3, <2>4 DEF CompletedOK, NoJob
  <2> QED BY <2>1, <2>2, <2>5 DEF Ordered
<1> QED BY <1>1, <1>6, <1>7, <1>8, <1>9, <1>10 DEF Inv, Always

\* Others block the address by hand, or take the block away.
LEMMA OthersKeep ==
  ASSUME Inv, NEW p \in Peer, AnalystAdds(p) \/ OthersRemove(p)
  PROVE  Inv'
<1> USE DEF Peer
<1>1. /\ UNCHANGED <<mode, foreign, job, phase, completed, wronged, overlap, faults>>
      /\ moves' = moves + 1
  BY DEF AnalystAdds, OthersRemove, Move, ledger, history
<1>2. /\ entry' \in [Peer -> {"none", "plane", "analyst"}]
      /\ seen' \in [Peer -> BOOLEAN] /\ lost' \in [Peer -> BOOLEAN]
      /\ \A q \in Peer :
           \/ entry'[q] = entry[q] /\ seen'[q] = seen[q] /\ lost'[q] = lost[q]
           \/ entry[q] = "none" /\ entry'[q] = "analyst" /\ seen'[q] = seen[q] /\ lost'[q] = lost[q]
           \/ entry'[q] = "none" /\ ~seen'[q] /\ lost'[q]
  <2>1. CASE AnalystAdds(p)
    BY <2>1 DEF AnalystAdds, Present, history, Inv, Always, TypeOK
  <2>2. CASE OthersRemove(p)
    BY <2>2 DEF OthersRemove, Inv, Always, TypeOK
  <2> QED BY <2>1, <2>2
<1>3. TypeOK'
  BY <1>1, <1>2 DEF Inv, Always, TypeOK
<1>4. JobOK' /\ RevertOK'
  BY <1>1 DEF Inv, Always, JobOK, RevertOK, Owners
<1>5. LedgerOK'
  BY <1>1, <1>2 DEF Inv, Always, TypeOK, LedgerOK, Owners, Present
<1>6. HeldOK'
  BY <1>1, <1>2 DEF Inv, Always, TypeOK, HeldOK, Held, Owners, Present
<1>7. ApplyOK'
  <2>1. \A k \in Key, q \in Peer : Held(k, q) => Held(k, q)'
    BY <1>1, <1>2 DEF Inv, Always, TypeOK, Held, Owners, Present
  <2>2. \A q \in Peer : seen'[q] => seen[q]
    BY <1>2 DEF Inv, Always, TypeOK
  <2>3. job.op = "apply" => job.key \in Key /\ job.at \in Peer
    BY DEF Inv, Always, JobOK, NoJob
  <2>4. ASSUME job.op = "apply" PROVE ApplyOK'
    <3>1. Held(job.key, job.at) => (Present(job.at)' \/ lost'[job.at])
      BY <1>1, <1>2, <2>3, <2>4 DEF Inv, Always, TypeOK, Held, Present
    <3> QED BY <1>1, <2>1, <2>2, <2>3, <2>4, <3>1 DEF Inv, Always, ApplyOK, Held, Owners, Present
  <2> QED BY <1>1, <2>4 DEF ApplyOK
<1>8. ASSUME Ordered PROVE Ordered'
  <2>1. PlacedOK'
    BY <1>1, <1>2, <1>8 DEF Inv, Always, TypeOK, Ordered, PlacedOK, Owners
  <2>2. AloneOK'
    BY <1>1, <1>8 DEF Ordered, AloneOK, Owners
  <2>3. CompletedOK'
    <3>1. \A q \in Peer : entry[q] = "analyst" \/ lost[q] => entry'[q] = "analyst" \/ lost'[q]
      BY <1>2 DEF Inv, Always, TypeOK
    <3> QED BY <1>1, <1>8, <3>1 DEF Ordered, CompletedOK, Owners
  <2> QED BY <1>1, <1>8, <2>1, <2>2, <2>3 DEF Ordered, Open
<1> QED BY <1>1, <1>3, <1>4, <1>5, <1>6, <1>7, <1>8 DEF Inv, Always
-----------------------------------------------------------------------------
(* The theorems.                                                           *)

\* The ledger of every peer, the sets and the call in progress stay in the
\* relation that the adapter's steps rely on.
THEOREM Invariance == Spec => []Inv
<1>1. Init => Inv
  <2> SUFFICES ASSUME Init PROVE Inv
    OBVIOUS
  <2>1. TypeOK
    <3>1. job \in Job
      BY BlocklistAssumption DEF Init, NoJob, Job
    <3>2. entry \in [Peer -> {"none", "plane", "analyst"}]
      BY DEF Init
    <3> QED BY <3>1, <3>2 DEF Init, TypeOK
  <2>2. \A p \in Peer : Owners(p) = {}
    BY DEF Init, Owners
  <2>3. JobOK /\ LedgerOK /\ HeldOK /\ ApplyOK /\ RevertOK /\ wronged # "seen"
    BY <2>2 DEF Init, JobOK, LedgerOK, HeldOK, ApplyOK, RevertOK, NoJob
  <2>4. Ordered
    BY <2>2 DEF Init, Ordered, Open, PlacedOK, AloneOK, CompletedOK, NoJob
  <2> QED BY <2>1, <2>3, <2>4 DEF Inv, Always
<1>2. Inv /\ [Next]_vars => Inv'
  <2> SUFFICES ASSUME Inv, [Next]_vars PROVE Inv'
    OBVIOUS
  <2>1. CASE UNCHANGED vars
    BY <2>1 DEF Inv, Always, TypeOK, JobOK, LedgerOK, HeldOK, ApplyOK, RevertOK, Held, Owners, Present,
                Ordered, Open, PlacedOK, AloneOK, CompletedOK, vars, ledger, history
  <2>2. CASE \E k \in Key : StartApply(k) \/ StartVerify(k) \/ StartRevert(k)
    BY <2>2, StartApplyKeeps, StartVerifyKeeps, StartRevertKeeps
  <2>3. CASE Apply
    BY <2>3, LookKeeps, ClaimsKeep, MarkKeeps, PeekKeeps, PutKeeps, CheckKeeps, ApplyRaisesKeeps DEF Apply
  <2>4. CASE Lift
    BY <2>4, DropKeeps, ForgetKeeps, ConfirmKeeps, ReleaseRaisesKeeps DEF Lift
  <2>5. CASE Read \/ Finish \/ Crash
    BY <2>5, ReadKeeps, EndKeeps
  <2>6. CASE \E p \in Peer : AnalystAdds(p) \/ OthersRemove(p)
    BY <2>6, OthersKeep
  <2> QED BY <2>1, <2>2, <2>3, <2>4, <2>5, <2>6 DEF Next
<1> QED BY <1>1, <1>2, PTL DEF Spec

\* Whatever the plane has placed on a peer has an owner in that peer's durable
\* ledger, through every crash and every failing call.
THEOREM PlacedHasOwner == Spec => []PlacedIsOwned
<1>1. Inv => PlacedIsOwned
  BY DEF Inv, Ordered, PlacedOK, PlacedIsOwned
<1> QED BY <1>1, Invariance, PTL

\* An ended operation holds no claim, nothing placed outlives the last open
\* operation, and a compensation in which no call failed is complete.
THEOREM Lifting == Spec => []ContainmentLifted
<1>1. Inv => ContainmentLifted
  <2> SUFFICES ASSUME Inv, ~overlap PROVE ContainmentLifted
    BY DEF ContainmentLifted
  <2>1. \A k \in Key : phase[k] = "ended" => \A p \in Peer : k \notin Owners(p)
    BY DEF Inv, Always, LedgerOK
  <2>2. (\A k \in Key : phase[k] \in {"new", "ended"}) => \A p \in Peer : entry[p] # "plane"
    <3> SUFFICES ASSUME \A k \in Key : phase[k] \in {"new", "ended"}, NEW p \in Peer
                 PROVE  entry[p] # "plane"
      OBVIOUS
    <3>1. Owners(p) = {}
      BY DEF Inv, Always, LedgerOK, Owners
    <3> QED BY <3>1 DEF Inv, Ordered, PlacedOK
  <2>3. (job.op = "undo" /\ job.pc = "done" /\ ~job.raised) =>
          \A p \in Peer : job.key \notin Owners(p)
    <3>1. \A p \in Peer : p = 1 \/ p > 1
      BY BlocklistAssumption DEF Peer
    <3> QED BY <3>1 DEF Inv, Ordered, AloneOK
  <2> QED BY <2>1, <2>2, <2>3 DEF ContainmentLifted
<1> QED BY <1>1, Invariance, PTL

\* No compensation or revert takes away a block that another operation holds as
\* applied, even for a caller whose operations overlap.
THEOREM SharedKept == Spec => []SharedEntryKept
<1>1. Inv => SharedEntryKept
  BY DEF Inv, Always, HeldOK, Held, SharedEntryKept
<1> QED BY <1>1, Invariance, PTL

\* An entry that an operation has marked as pre-existing is never removed.
THEOREM ObservedKept == Spec => []ObservedEntryKept
<1>1. Inv => ObservedEntryKept
  BY DEF Inv, Always, ObservedEntryKept
<1> QED BY <1>1, Invariance, PTL

\* A revert repeated after a success whose outcome was lost succeeds again,
\* unless others left an entry or took one away.
THEOREM RevertIsRepeatable == Spec => []RevertRepeats
<1>1. Inv => RevertRepeats
  BY DEF Inv, Ordered, CompletedOK, RevertRepeats
<1> QED BY <1>1, Invariance, PTL
=============================================================================
