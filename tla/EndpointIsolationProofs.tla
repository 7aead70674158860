---------------------- MODULE EndpointIsolationProofs ----------------------
(***************************************************************************)
(* Proofs about endpoint isolation, for any number of operations, faults,  *)
(* late requests and restarts.  Two facts carry them: of each operation    *)
(* there is one isolate request, which is in one place at a time, so that  *)
(* an isolation that was ever reported cannot come back; and the agent     *)
(* runs requests in their order, so that nothing is left to run behind the *)
(* isolation of the operation that is being verified.                      *)
(***************************************************************************)
EXTENDS EndpointIsolation, TLAPS

Iso(k) == [run |-> "isolate", op |-> k]
Isolating(k) == script.run = "isolate" /\ script.op = k
Queued(k) == \E i \in 1..Len(inbox) : inbox[i] = Iso(k)

\* The isolate request of the operation has not been sent.
Unsent(k) == phase[k] = "new" \/ (job.call = "apply" /\ job.op = k /\ job.pc = "trigger")

\* The isolate request of the operation has had no effect.
Untouched(k) == k \notin marker /\ k \notin reported /\ k \notin proven /\ table # k

\* The isolate request is in one place, and what follows its effect comes after.
OneRequest(k) ==
  /\ Unsent(k) => Iso(k) \notin wire /\ ~Queued(k) /\ ~Isolating(k) /\ Untouched(k)
  /\ Iso(k) \in wire => ~Queued(k) /\ ~Isolating(k) /\ Untouched(k)
  /\ Queued(k) => ~Isolating(k) /\ Untouched(k)
  /\ \A i, j \in 1..Len(inbox) : inbox[i] = Iso(k) /\ inbox[j] = Iso(k) => i = j
  /\ Isolating(k) => k \notin marker /\ k \notin reported /\ k \notin proven
  /\ Isolating(k) /\ script.step = "marker" => table = k

\* A marker goes after the ruleset, a report after the marker.
ReportOK(k) ==
  /\ k \in reported \cup proven /\ k \notin marker => table # k
  /\ k \in proven /\ k \notin reported => table # k
  /\ k \in proven /\ phase[k] = "ended" => table # k

CallsOK ==
  /\ job.call \in {"apply", "revert"} => phase[job.op] = "unknown"
  /\ job.call = "apply" => job.pc # "await"
  /\ job.call = "verify" => phase[job.op] = "applied" /\ job.pc # "trigger"
  /\ (job.call = "revert" /\ job.pc = "done" /\ job.ok /\ job.op \in proven) => table # job.op
  /\ \A k, o \in Op : k # o /\ phase[k] \notin {"new", "ended"} => phase[o] \in {"new", "ended"}

\* The manager has accepted the isolate request and no revert has begun.
Applied(k) ==
  \/ phase[k] = "applied"
  \/ job.call = "apply" /\ job.op = k /\ job.pc = "done" /\ job.ok

\* Nothing is behind the isolation of the operation.
InOrder(k) ==
  /\ inbox # <<>> => inbox[Len(inbox)] = Iso(k)
  /\ k \in marker \cup reported => script = NoScript /\ table = k

Inv ==
  /\ TypeOK
  /\ CallsOK
  /\ script.run = "restore" /\ script.step = "marker" => table = NoOp
  /\ \A k \in Op : OneRequest(k) /\ ReportOK(k)
  /\ disturbed \/ \A k \in Op : Applied(k) => InOrder(k)
  /\ VerifiedIsIsolated
-----------------------------------------------------------------------------
(* The adapter and its caller.                                             *)

\* What the invariant says of the calls, by name.
LEMMA Calls ==
  ASSUME Inv
  PROVE  /\ job = NoJob \/ (job.op \in Op /\ job.call \in {"apply", "verify", "revert"}
                            /\ job.pc \in {"trigger", "await", "done"} /\ job.ok \in BOOLEAN)
         /\ DOMAIN phase = Op /\ inbox \in Seq(Request) /\ NoOp \notin Op
         /\ \A k \in Op : OneRequest(k) /\ ReportOK(k)
  BY IsolationAssumption DEF Inv, TypeOK

\* A step of the caller alone: the requests and the endpoint are as they were.
LEMMA CallerKeeps ==
  ASSUME Inv, UNCHANGED <<table, marker, script, reported, inbox, wire, proven>>,
         NEW k \in Op, Unsent(k)' => Unsent(k),
         (k \in proven /\ phase'[k] = "ended") => (phase[k] = "ended" \/ table # k)
  PROVE  OneRequest(k)' /\ ReportOK(k)'
<1>1. OneRequest(k) /\ ReportOK(k)
  BY DEF Inv
<1>2. OneRequest(k)'
  BY <1>1 DEF OneRequest, Queued, Isolating, Untouched, Iso
<1>3. ReportOK(k)'
  BY <1>1 DEF ReportOK
<1> QED BY <1>2, <1>3

\* A call begins.
LEMMA StartSteps ==
  ASSUME Inv, NEW k \in Op, StartApply(k) \/ StartVerify(k) \/ StartRevert(k)
  PROVE  Inv'
<1>1. /\ job = NoJob /\ job'.op = k /\ job'.ok = FALSE
      /\ job' \in [call: {"apply", "verify", "revert"}, op: Op, pc: {"trigger", "await", "done"}, ok: BOOLEAN]
      /\ UNCHANGED <<table, marker, script, reported, inbox, wire, proven, amiss, disturbed>>
      /\ UNCHANGED <<faults, late, reboots>>
      /\ \/ /\ phase[k] = "new" /\ \A o \in Op \ {k} : phase[o] \in {"new", "ended"}
            /\ job'.call = "apply" /\ job'.pc = "trigger" /\ phase' = [phase EXCEPT ![k] = "unknown"]
         \/ /\ phase[k] = "applied" /\ job'.call = "verify" /\ job'.pc = "await" /\ phase' = phase
         \/ /\ phase[k] \in {"unknown", "applied", "verified"}
            /\ job'.call = "revert" /\ job'.pc = "trigger" /\ phase' = [phase EXCEPT ![k] = "unknown"]
  <2> DEFINE Job == [call: {"apply", "verify", "revert"}, op: Op, pc: {"trigger", "await", "done"}, ok: BOOLEAN]
  <2>1. \A call \in {"apply", "verify", "revert"} : \A pc \in {"trigger", "await"} :
          Start(k, call, pc) =>
            /\ job = NoJob /\ job' \in Job
            /\ job'.op = k /\ job'.ok = FALSE /\ job'.call = call /\ job'.pc = pc
            /\ UNCHANGED <<table, marker, script, reported, inbox, wire, proven, amiss, disturbed>>
            /\ UNCHANGED <<faults, late, reboots>>
    BY DEF Start, endpoint, manager, history, bounds
  <2> HIDE DEF Job
  <2>2. CASE StartApply(k)
    BY <2>1, <2>2 DEF StartApply, Job
  <2>3. CASE StartVerify(k)
    BY <2>1, <2>3 DEF StartVerify, Job
  <2>4. CASE StartRevert(k)
    BY <2>1, <2>4 DEF StartRevert, Job
  <2> QED BY <2>2, <2>3, <2>4
<1>2. /\ phase'[k] \notin {"new", "ended"} /\ DOMAIN phase' = Op
      /\ \A o \in Op : o # k => phase'[o] = phase[o]
      /\ \A o \in Op : o # k => phase[o] \in {"new", "ended"}
      /\ phase' \in [Op -> {"new", "unknown", "applied", "verified", "ended"}]
  BY <1>1 DEF Inv, TypeOK, CallsOK
<1>3. ASSUME NEW o \in Op PROVE OneRequest(o)' /\ ReportOK(o)'
  <2>1. Unsent(o)' => Unsent(o)
    BY <1>1, <1>2 DEF Unsent
  <2> QED BY <1>1, <1>2, <2>1, CallerKeeps
<1>4. CallsOK'
  <2>1. phase'[k] = IF job'.call = "verify" THEN "applied" ELSE "unknown"
    BY <1>1, <1>2
  <2> QED BY <1>1, <1>2, <2>1 DEF CallsOK
<1>5. disturbed' \/ \A o \in Op : Applied(o)' => InOrder(o)'
  <2>1. \A o \in Op : Applied(o)' => Applied(o)
    BY <1>1, <1>2 DEF Applied
  <2> QED BY <1>1, <2>1 DEF Inv, InOrder, Iso
<1>6. TypeOK'
  BY <1>1, <1>2 DEF Inv, TypeOK
<1> QED BY <1>1, <1>3, <1>4, <1>5, <1>6 DEF Inv, VerifiedIsIsolated

\* A request is appended to those the agent has not run.
LEMMA Appending ==
  ASSUME NEW q \in Request, inbox \in Seq(Request), inbox' = Append(inbox, q)
  PROVE  /\ inbox' \in Seq(Request) /\ inbox' # <<>> /\ inbox'[Len(inbox')] = q
         /\ Len(inbox') = Len(inbox) + 1 /\ Len(inbox) \in Nat
         /\ \A i \in 1..Len(inbox) : inbox'[i] = inbox[i]
  OBVIOUS

\* A new isolate request is alone, a restore request changes nothing.
LEMMA SendingKeeps ==
  ASSUME Inv, NEW q \in Request, NEW k \in Op,
         UNCHANGED <<table, marker, script, reported, proven, phase>>,
         \/ inbox' = Append(inbox, q) /\ wire' \subseteq wire
         \/ inbox' = inbox /\ wire' \subseteq wire \cup {q},
         q = Iso(k) =>
           /\ ~Isolating(k) /\ Untouched(k) /\ ~Queued(k)
           /\ inbox' # inbox => Iso(k) \notin wire',
         Unsent(k)' => Unsent(k) /\ q # Iso(k)
  PROVE  OneRequest(k)' /\ ReportOK(k)'
<1>1. OneRequest(k) /\ ReportOK(k) /\ inbox \in Seq(Request)
  BY DEF Inv, TypeOK
<1>2. ReportOK(k)'
  BY <1>1 DEF ReportOK
<1>3. (Isolating(k)' <=> Isolating(k)) /\ (Untouched(k)' <=> Untouched(k)) /\ Iso(k)' = Iso(k)
  BY DEF Isolating, Untouched, Iso
<1>4. CASE inbox' = Append(inbox, q) /\ wire' \subseteq wire
  <2>1. /\ Len(inbox') = Len(inbox) + 1 /\ Len(inbox) \in Nat /\ inbox'[Len(inbox')] = q
        /\ \A i \in 1..Len(inbox) : inbox'[i] = inbox[i]
    BY <1>1, <1>4, Appending
  <2>2. \A i \in 1..Len(inbox') : i \in 1..Len(inbox) \/ i = Len(inbox')
    BY <2>1
  <2>3. Queued(k)' => Queued(k) \/ q = Iso(k)
    BY <1>3, <2>1, <2>2 DEF Queued
  <2>4. \A i, j \in 1..Len(inbox') : inbox'[i] = Iso(k) /\ inbox'[j] = Iso(k) => i = j
    <3>1. CASE q = Iso(k)
      BY <2>1, <2>2, <3>1 DEF Queued
    <3>2. CASE q # Iso(k)
      BY <1>1, <2>1, <2>2, <3>2 DEF OneRequest
    <3> QED BY <3>1, <3>2
  <2>5. CASE q = Iso(k)
    <3>1. inbox' # inbox
      BY <2>1
    <3>2. Iso(k) \notin wire' /\ ~Isolating(k) /\ Untouched(k) /\ ~Unsent(k)'
      BY <2>5, <3>1
    <3> QED BY <1>1, <1>2, <1>3, <2>4, <3>2 DEF OneRequest
  <2>6. CASE q # Iso(k)
    <3>1. (Queued(k)' => Queued(k)) /\ (Iso(k) \in wire' => Iso(k) \in wire)
      BY <1>4, <2>3, <2>6
    <3> QED BY <1>1, <1>2, <1>3, <2>4, <3>1 DEF OneRequest, Isolating
  <2> QED BY <2>5, <2>6
<1>5. CASE inbox' = inbox /\ wire' \subseteq wire \cup {q}
  <2>1. (Queued(k)' <=> Queued(k)) /\ (Iso(k) \in wire' => Iso(k) \in wire \/ q = Iso(k))
    BY <1>3, <1>5 DEF Queued
  <2>2. \A i, j \in 1..Len(inbox') : inbox'[i] = Iso(k) /\ inbox'[j] = Iso(k) => i = j
    BY <1>1, <1>5 DEF OneRequest
  <2> QED BY <1>1, <1>2, <1>3, <2>1, <2>2 DEF OneRequest, Isolating
<1> QED BY <1>4, <1>5

\* The request of a call is sent, refused, lost or delayed.
LEMMA TriggerSteps ==
  ASSUME Inv, Trigger \/ TriggerRaises
  PROVE  Inv'
<1>1. /\ job.pc = "trigger"
      /\ UNCHANGED <<table, marker, script, reported, phase, proven, amiss, disturbed>>
      /\ \/ /\ inbox' = Append(inbox, Wanted) /\ wire' = wire
         \/ /\ inbox' = inbox /\ wire' \subseteq wire \cup {Wanted}
      /\ \/ job' = [job EXCEPT !.pc = "done", !.ok = FALSE]
         \/ /\ job.call = "apply" /\ job' = [job EXCEPT !.pc = "done", !.ok = TRUE]
            /\ inbox' = Append(inbox, Wanted)
         \/ job.call # "apply" /\ job' = [job EXCEPT !.pc = "await"]
  BY DEF Trigger, TriggerRaises, Returns, Fault, endpoint, history, bounds
<1>2. /\ job.op \in Op /\ job.call \in {"apply", "revert"} /\ phase[job.op] = "unknown" /\ job # NoJob
      /\ inbox \in Seq(Request) /\ NoOp \notin Op
  <2>1. job # NoJob
    BY <1>1 DEF NoJob
  <2>2. job.call # "verify"
    BY <1>1 DEF Inv, CallsOK
  <2> QED BY <2>1, <2>2, Calls DEF Inv, CallsOK
<1>3. PICK q, k, call : q = Wanted /\ k = job.op /\ call = job.call
  OBVIOUS
<1>4. q \in Request /\ q.op = k /\ (q.run = "isolate" <=> call = "apply") /\ k \in Op
  BY <1>2, <1>3 DEF Wanted, Request
<1>5. /\ job'.op = k /\ job'.call = call /\ job'.pc \in {"done", "await"}
      /\ job' \in [call: {"apply", "verify", "revert"}, op: Op, pc: {"trigger", "await", "done"}, ok: BOOLEAN]
      /\ job'.pc = "done" /\ job'.ok => call = "apply" /\ inbox' = Append(inbox, q)
      /\ call = "apply" => job'.pc = "done"
  BY <1>1, <1>2, <1>3 DEF Inv, TypeOK
<1>6. call = "apply" => Unsent(k)
  BY <1>1, <1>3 DEF Unsent
<1>7. ASSUME NEW o \in Op PROVE OneRequest(o)' /\ ReportOK(o)'
  <2>1. q = Iso(o) => o = k /\ call = "apply"
    BY <1>4 DEF Iso
  <2>2. OneRequest(o)
    BY DEF Inv
  <2>3. q = Iso(o) => ~Isolating(o) /\ Untouched(o) /\ ~Queued(o) /\ Iso(o) \notin wire
    BY <1>6, <2>1, <2>2 DEF OneRequest
  <2>4. Unsent(o)' => Unsent(o) /\ q # Iso(o)
    BY <1>1, <1>2, <1>3, <1>5, <2>1 DEF Unsent
  <2>5. inbox' # inbox => wire' = wire
    BY <1>1
  <2> QED BY <1>1, <1>3, <1>4, <2>3, <2>4, <2>5, SendingKeeps
<1>8. CallsOK'
  BY <1>1, <1>2, <1>3, <1>5 DEF Inv, CallsOK
<1>9. inbox' \in Seq(Request) /\ wire' \subseteq Request
  <2>1. inbox' \in Seq(Request)
    BY <1>1, <1>2, <1>3, <1>4, Appending
  <2> QED BY <1>1, <1>3, <1>4, <2>1 DEF Inv, TypeOK
<1>10. TypeOK'
  <2>1. faults' \in Nat /\ late' \in Nat /\ reboots' \in Nat
    <3>1. faults \in Nat /\ late \in Nat /\ reboots \in Nat
      BY DEF Inv, TypeOK
    <3>2. CASE Trigger
      BY <3>1, <3>2 DEF Trigger, bounds
    <3>3. CASE TriggerRaises
      BY <3>1, <3>3 DEF TriggerRaises, Fault
    <3> QED BY <3>2, <3>3
  <2> QED BY <1>1, <1>5, <1>9, <2>1 DEF Inv, TypeOK
<1>11. ASSUME NEW o \in Op, Applied(o)' PROVE InOrder(o)'
  <2>1. phase[o] # "applied"
    <3>1. CASE o = k
      BY <1>2, <1>3, <3>1
    <3>2. CASE o # k
      BY <1>2, <1>3, <3>2 DEF Inv, CallsOK
    <3> QED BY <3>1, <3>2
  <2>2. o = k /\ call = "apply" /\ inbox' = Append(inbox, q)
    BY <1>1, <1>5, <1>11, <2>1 DEF Applied
  <2>3. q = Iso(k)
    BY <1>2, <1>3, <2>2 DEF Wanted, Iso
  <2>4. Untouched(k)
    BY <1>4, <1>6, <2>2 DEF Inv, OneRequest
  <2> QED BY <1>1, <1>2, <1>4, <2>2, <2>3, <2>4, Appending DEF InOrder, Untouched, Iso
<1> QED BY <1>1, <1>7, <1>8, <1>10, <1>11 DEF Inv, VerifiedIsIsolated

\* A wait ends.
LEMMA AwaitSteps ==
  ASSUME Inv, AwaitSucceeds \/ AwaitFails
  PROVE  Inv'
<1>1. /\ job.pc = "await"
      /\ UNCHANGED <<table, marker, script, reported, inbox, wire, phase, disturbed>>
      /\ \/ /\ job' = [job EXCEPT !.pc = "done", !.ok = FALSE] /\ UNCHANGED <<proven, amiss>>
         \/ /\ job' = [job EXCEPT !.pc = "done", !.ok = TRUE] /\ job.call = "verify"
            /\ job.op \in reported /\ proven' = proven \cup {job.op}
            /\ amiss' = (amiss \/ table # job.op)
         \/ /\ job' = [job EXCEPT !.pc = "done", !.ok = TRUE] /\ job.call # "verify"
            /\ job.op \notin reported /\ UNCHANGED proven /\ amiss' = (amiss \/ FALSE)
  <2>1. CASE AwaitSucceeds
    BY <2>1 DEF AwaitSucceeds, Returns, Sought, endpoint, manager
  <2>2. CASE AwaitFails
    BY <2>2 DEF AwaitFails, Returns, endpoint, manager, history
  <2> QED BY <2>1, <2>2
<1>2. faults' \in Nat /\ late' \in Nat /\ reboots' \in Nat
  <2>1. faults \in Nat /\ late \in Nat /\ reboots \in Nat
    BY DEF Inv, TypeOK
  <2>2. CASE AwaitSucceeds
    BY <2>1, <2>2 DEF AwaitSucceeds, bounds
  <2>3. CASE AwaitFails
    BY <2>1, <2>3 DEF AwaitFails, Fault, bounds
  <2> QED BY <2>2, <2>3
<1>3. PICK k, call : k = job.op /\ call = job.call
  OBVIOUS
<1>4. /\ job # NoJob /\ k \in Op /\ call \in {"verify", "revert"}
      /\ phase[k] = IF call = "verify" THEN "applied" ELSE "unknown"
  <2>1. job # NoJob
    BY <1>1 DEF NoJob
  <2> QED BY <1>1, <1>3, <2>1, Calls DEF Inv, CallsOK
<1>5. /\ job'.op = k /\ job'.call = call /\ job'.pc = "done"
      /\ job' \in [call: {"apply", "verify", "revert"}, op: Op, pc: {"trigger", "await", "done"}, ok: BOOLEAN]
      /\ job'.ok => (call = "verify" <=> k \in reported)
      /\ proven' \in {proven, proven \cup {k}}
      /\ proven' # proven => call = "verify" /\ k \in reported
  BY <1>1, <1>3, <1>4 DEF Inv, TypeOK
<1>6. TypeOK'
  BY <1>1, <1>2, <1>4, <1>5 DEF Inv, TypeOK
<1>7. ASSUME NEW o \in Op PROVE OneRequest(o)' /\ ReportOK(o)'
  <2>1. OneRequest(o) /\ ReportOK(o)
    BY DEF Inv
  <2>2. o \in proven' => o \in proven \/ (o = k /\ o \in reported /\ phase[o] = "applied")
    BY <1>4, <1>5
  <2>3. Untouched(o)' <=> Untouched(o)
    <3>1. o \in proven' /\ o \notin proven => o \in reported
      BY <2>2
    <3>2. o \in proven => o \in proven'
      BY <1>5
    <3> QED BY <1>1, <3>1, <3>2 DEF Untouched
  <2>4. /\ Isolating(o)' <=> Isolating(o)
        /\ Queued(o)' <=> Queued(o)
        /\ Unsent(o)' => Unsent(o)
        /\ Iso(o)' = Iso(o)
    BY <1>1, <1>5 DEF Isolating, Queued, Unsent, Iso
  <2>5. OneRequest(o)'
    BY <1>1, <2>1, <2>2, <2>3, <2>4 DEF OneRequest
  <2>6. ReportOK(o)'
    BY <1>1, <2>1, <2>2 DEF ReportOK
  <2> QED BY <2>5, <2>6
<1>8. CallsOK'
  <2>1. (call = "revert" /\ job'.ok /\ k \in proven') => table # k
    <3> SUFFICES ASSUME call = "revert", job'.ok, k \in proven' PROVE table # k
      OBVIOUS
    <3>1. k \in proven /\ k \notin reported
      BY <1>5
    <3> QED BY <1>4, <3>1 DEF Inv, ReportOK
  <2> QED BY <1>1, <1>4, <1>5, <2>1 DEF Inv, CallsOK
<1>9. disturbed' \/ \A o \in Op : Applied(o)' => InOrder(o)'
  <2>1. \A o \in Op : Applied(o)' => Applied(o)
    BY <1>1, <1>4, <1>5 DEF Applied
  <2> QED BY <1>1, <2>1 DEF Inv, InOrder, Iso
<1>10. VerifiedIsIsolated'
  <2>1. CASE amiss' = amiss
    BY <1>1, <2>1 DEF Inv, VerifiedIsIsolated
  <2>2. CASE call = "verify" /\ k \in reported /\ amiss' = (amiss \/ table # k)
    <3>1. Applied(k)
      BY <1>4, <2>2 DEF Applied
    <3>2. disturbed \/ table = k
      BY <1>4, <2>2, <3>1 DEF Inv, InOrder
    <3> QED BY <1>1, <2>2, <3>2 DEF Inv, VerifiedIsIsolated
  <2>3. CASE amiss' = (amiss \/ FALSE)
    BY <1>1, <2>3 DEF Inv, VerifiedIsIsolated
  <2> QED BY <1>1, <1>3, <2>1, <2>2, <2>3
<1> QED BY <1>1, <1>6, <1>7, <1>8, <1>9, <1>10 DEF Inv

\* A call ends, recorded or not.
LEMMA EndSteps ==
  ASSUME Inv, Finish \/ Crash
  PROVE  Inv'
<1>1. PICK k, call, ok : k = job.op /\ call = job.call /\ ok = job.ok
  OBVIOUS
<1>2. /\ job # NoJob /\ job' = NoJob
      /\ UNCHANGED <<table, marker, script, reported, inbox, wire, proven, amiss, disturbed>>
  BY DEF Finish, Crash, NoJob, endpoint, manager, history
<1>3. faults' \in Nat /\ late' \in Nat /\ reboots' \in Nat
  <2>1. faults \in Nat /\ late \in Nat /\ reboots \in Nat
    BY DEF Inv, TypeOK
  <2>2. CASE Finish
    BY <2>1, <2>2 DEF Finish, bounds
  <2>3. CASE Crash
    BY <2>1, <2>3 DEF Crash, Fault
  <2> QED BY <2>2, <2>3
<1>4. /\ k \in Op /\ call \in {"apply", "verify", "revert"} /\ ok \in BOOLEAN
      /\ phase[k] = IF call = "verify" THEN "applied" ELSE "unknown"
      /\ \A o \in Op : o # k => phase[o] \in {"new", "ended"}
  <2>1. /\ k \in Op /\ call \in {"apply", "verify", "revert"} /\ ok \in BOOLEAN
        /\ phase[k] = IF call = "verify" THEN "applied" ELSE "unknown"
    BY <1>1, <1>2, Calls DEF Inv, CallsOK
  <2> QED BY <2>1 DEF Inv, CallsOK
<1>5. /\ DOMAIN phase' = Op /\ \A o \in Op : o # k => phase'[o] = phase[o]
      /\ phase' \in [Op -> {"new", "unknown", "applied", "verified", "ended"}]
      /\ \/ phase'[k] = "unknown"
         \/ phase'[k] = "applied" /\ (call = "verify" \/ (call = "apply" /\ job.pc = "done" /\ ok))
         \/ phase'[k] = "verified"
         \/ phase'[k] = "ended" /\ call = "revert" /\ job.pc = "done" /\ ok
  <2>1. phase \in [Op -> {"new", "unknown", "applied", "verified", "ended"}]
    BY DEF Inv, TypeOK
  <2>2. CASE Finish
    <3>1. job.pc = "done" /\ phase' = [phase EXCEPT ![k] = Outcome]
      BY <1>1, <2>2 DEF Finish
    <3>2. \/ Outcome = "unknown"
          \/ Outcome = "applied" /\ call = "apply" /\ ok
          \/ Outcome = "verified"
          \/ Outcome = "ended" /\ call = "revert" /\ ok
      BY <1>1, <1>4 DEF Outcome
    <3> QED BY <1>4, <2>1, <3>1, <3>2
  <2>3. CASE Crash
    <3>1. phase' = [phase EXCEPT ![k] = IF call = "verify" THEN phase[k] ELSE "unknown"]
      BY <1>1, <2>3 DEF Crash
    <3> QED BY <1>4, <2>1, <3>1
  <2> QED BY <2>2, <2>3
<1>6. ASSUME NEW o \in Op PROVE OneRequest(o)' /\ ReportOK(o)'
  <2>1. Unsent(o)' => Unsent(o)
    <3>1. job'.call = "none"
      BY <1>2 DEF NoJob
    <3> QED BY <1>4, <1>5, <3>1 DEF Unsent
  <2>2. (o \in proven /\ phase'[o] = "ended") => (phase[o] = "ended" \/ table # o)
    BY <1>1, <1>5 DEF Inv, CallsOK
  <2> QED BY <1>2, <2>1, <2>2, CallerKeeps
<1>7. CallsOK'
  <2>1. job'.call = "none"
    BY <1>2 DEF NoJob
  <2>2. \A n, o \in Op : n # o /\ phase'[n] \notin {"new", "ended"} => phase'[o] \in {"new", "ended"}
    BY <1>4, <1>5
  <2> QED BY <2>1, <2>2 DEF CallsOK
<1>8. disturbed' \/ \A o \in Op : Applied(o)' => InOrder(o)'
  <2>1. \A o \in Op : Applied(o)' => Applied(o)
    <3>1. job'.call = "none"
      BY <1>2 DEF NoJob
    <3> QED BY <1>1, <1>4, <1>5, <3>1 DEF Applied
  <2> QED BY <1>2, <2>1 DEF Inv, InOrder, Iso
<1>9. TypeOK'
  BY <1>2, <1>3, <1>5 DEF Inv, TypeOK
<1> QED BY <1>2, <1>6, <1>7, <1>8, <1>9 DEF Inv, VerifiedIsIsolated
-----------------------------------------------------------------------------
(* The manager and the agent.                                              *)

\* A request the client gave up arrives.
LEMMA ArriveStep ==
  ASSUME Inv, Arrive
  PROVE  Inv'
<1>1. PICK q \in wire : wire' = wire \ {q} /\ inbox' = Append(inbox, q)
  BY DEF Arrive
<1>2. /\ UNCHANGED <<table, marker, script, reported, job, phase, proven, amiss>>
      /\ UNCHANGED <<faults, late, reboots>> /\ disturbed' = TRUE
  BY DEF Arrive, endpoint, bounds
<1>3. q \in Request /\ inbox \in Seq(Request)
  BY DEF Inv, TypeOK
<1>4. ASSUME NEW k \in Op PROVE OneRequest(k)' /\ ReportOK(k)'
  <2>1. q = Iso(k) => ~Isolating(k) /\ Untouched(k) /\ ~Queued(k) /\ ~Unsent(k)
    BY DEF Inv, OneRequest
  <2>2. Unsent(k)' <=> Unsent(k)
    BY <1>2 DEF Unsent
  <2>3. q = Iso(k) => Iso(k) \notin wire'
    BY <1>1
  <2>4. wire' \subseteq wire
    BY <1>1
  <2> QED BY <1>1, <1>2, <1>3, <2>1, <2>2, <2>3, <2>4, SendingKeeps
<1>5. CallsOK'
  BY <1>2 DEF Inv, CallsOK
<1>6. TypeOK'
  <2>1. inbox' \in Seq(Request)
    BY <1>1, <1>3, Appending
  <2> QED BY <1>1, <1>2, <2>1 DEF Inv, TypeOK
<1> QED BY <1>2, <1>4, <1>5, <1>6 DEF Inv, VerifiedIsIsolated

\* The oldest request is taken away.
LEMMA Taking ==
  ASSUME inbox \in Seq(Request), inbox # <<>>, inbox' = Tail(inbox)
  PROVE  /\ inbox' \in Seq(Request) /\ Head(inbox) = inbox[1] /\ Head(inbox) \in Request
         /\ Len(inbox) \in Nat \ {0} /\ Len(inbox') = Len(inbox) - 1
         /\ \A i \in 1..Len(inbox') : inbox'[i] = inbox[i + 1]
         /\ inbox' # <<>> => inbox'[Len(inbox')] = inbox[Len(inbox)]
<1>1. /\ inbox' \in Seq(Request) /\ Head(inbox) = inbox[1] /\ Head(inbox) \in Request
      /\ Len(inbox) \in Nat \ {0} /\ Len(inbox') = Len(inbox) - 1
      /\ \A i \in 1..Len(inbox') : inbox'[i] = inbox[i + 1]
  OBVIOUS
<1>2. inbox' # <<>> => Len(inbox') \in 1..Len(inbox')
  BY <1>1
<1> QED BY <1>1, <1>2

\* What remains was there, and the request taken is no longer among it.
LEMMA TakingKeeps ==
  ASSUME Inv, inbox # <<>>, inbox' = Tail(inbox), NEW k \in Op
  PROVE  /\ Queued(k)' => Queued(k)
         /\ Head(inbox) = Iso(k) => Queued(k) /\ ~Queued(k)'
         /\ \A i, j \in 1..Len(inbox') : inbox'[i] = Iso(k) /\ inbox'[j] = Iso(k) => i = j
<1>1. inbox \in Seq(Request) /\ OneRequest(k)
  BY DEF Inv, TypeOK
<1>2. /\ Head(inbox) = inbox[1] /\ Len(inbox) \in Nat \ {0} /\ Len(inbox') = Len(inbox) - 1
      /\ \A i \in 1..Len(inbox') : inbox'[i] = inbox[i + 1]
  BY <1>1, Taking
<1>3. \A i \in 1..Len(inbox') : i + 1 \in 1..Len(inbox) /\ i + 1 # 1
  BY <1>2
<1>4. 1 \in 1..Len(inbox)
  BY <1>2
<1>5. \A i, j \in 1..Len(inbox) : inbox[i] = Iso(k) /\ inbox[j] = Iso(k) => i = j
  BY <1>1 DEF OneRequest
<1>6. \A i, j \in 1..Len(inbox') : inbox'[i] = Iso(k) /\ inbox'[j] = Iso(k) => i = j
  <2> SUFFICES ASSUME NEW i \in 1..Len(inbox'), NEW j \in 1..Len(inbox'),
                      inbox'[i] = Iso(k), inbox'[j] = Iso(k)
               PROVE  i = j
    OBVIOUS
  <2>1. i + 1 = j + 1
    BY <1>2, <1>3, <1>5
  <2> QED BY <2>1
<1> QED BY <1>2, <1>3, <1>4, <1>5, <1>6 DEF Queued, Iso

\* A request is lost, or its script is started.
LEMMA TakeSteps ==
  ASSUME Inv, Lose \/ RunScript
  PROVE  Inv'
<1>1. PICK q : q = Head(inbox)
  OBVIOUS
<1>2. /\ inbox # <<>> /\ inbox' = Tail(inbox)
      /\ UNCHANGED <<table, marker, reported, wire, job, phase, proven, amiss, disturbed>>
      /\ \/ script' = script
         \/ script = NoScript /\ script' = [run |-> q.run, op |-> q.op, step |-> "nft"]
  BY <1>1 DEF Lose, RunScript, endpoint, history
<1>3. faults' \in Nat /\ late' \in Nat /\ reboots' \in Nat
  <2>1. faults \in Nat /\ late \in Nat /\ reboots \in Nat
    BY DEF Inv, TypeOK
  <2>2. CASE Lose
    BY <2>1, <2>2 DEF Lose, Fault
  <2>3. CASE RunScript
    BY <2>1, <2>3 DEF RunScript, bounds
  <2> QED BY <2>2, <2>3
<1>4. /\ q \in Request /\ q.run \in {"isolate", "restore"} /\ q.op \in Op /\ inbox' \in Seq(Request)
      /\ inbox' # <<>> => inbox'[Len(inbox')] = inbox[Len(inbox)]
  <2>1. inbox \in Seq(Request)
    BY DEF Inv, TypeOK
  <2>2. /\ q \in Request /\ inbox' \in Seq(Request)
        /\ inbox' # <<>> => inbox'[Len(inbox')] = inbox[Len(inbox)]
    BY <1>1, <1>2, <2>1, Taking
  <2> QED BY <2>2 DEF Request
<1>5. TypeOK'
  BY <1>2, <1>3, <1>4 DEF Inv, TypeOK
<1>6. ASSUME NEW k \in Op PROVE OneRequest(k)' /\ ReportOK(k)'
  <2>1. OneRequest(k) /\ ReportOK(k)
    BY DEF Inv
  <2>2. /\ Queued(k)' => Queued(k)
        /\ q = Iso(k) => Queued(k) /\ ~Queued(k)'
        /\ \A i, j \in 1..Len(inbox') : inbox'[i] = Iso(k) /\ inbox'[j] = Iso(k) => i = j
    BY <1>1, <1>2, TakingKeeps
  <2>3. /\ Unsent(k)' <=> Unsent(k)
        /\ Untouched(k)' <=> Untouched(k)
        /\ Iso(k)' = Iso(k)
    BY <1>2 DEF Unsent, Untouched, Iso
  <2>4. Isolating(k)' => (Isolating(k) /\ script' = script) \/ (q = Iso(k) /\ script'.step = "nft")
    <3>1. CASE script' = script
      BY <3>1 DEF Isolating
    <3>2. CASE script' = [run |-> q.run, op |-> q.op, step |-> "nft"]
      <4>1. (q.run = "isolate" /\ q.op = k) => q = Iso(k)
        BY <1>4 DEF Request, Iso
      <4> QED BY <3>2, <4>1 DEF Isolating
    <3> QED BY <1>2, <3>1, <3>2
  <2>5. OneRequest(k)'
    <3>1. CASE q = Iso(k)
      BY <1>2, <2>1, <2>2, <2>3, <2>4, <3>1 DEF OneRequest, Untouched
    <3>2. CASE q # Iso(k)
      BY <1>2, <2>1, <2>2, <2>3, <2>4, <3>2 DEF OneRequest
    <3> QED BY <3>1, <3>2
  <2>6. ReportOK(k)'
    BY <1>2, <2>1 DEF ReportOK
  <2> QED BY <2>5, <2>6
<1>7. CallsOK'
  BY <1>2 DEF Inv, CallsOK
<1>8. (script'.run = "restore" /\ script'.step = "marker") => table' = NoOp
  <2>1. CASE script' = script
    BY <1>2, <2>1 DEF Inv
  <2>2. CASE script' = [run |-> q.run, op |-> q.op, step |-> "nft"]
    BY <2>2
  <2> QED BY <1>2, <2>1, <2>2
<1>9. ASSUME ~disturbed, NEW k \in Op, Applied(k)' PROVE InOrder(k)'
  <2>1. InOrder(k)
    BY <1>2, <1>9 DEF Inv, Applied
  <2>2. k \notin marker /\ k \notin reported
    <3>1. Queued(k)
      <4>1. inbox[Len(inbox)] = Iso(k)
        BY <1>2, <2>1 DEF InOrder
      <4>2. Len(inbox) \in 1..Len(inbox)
        BY <1>2 DEF Inv, TypeOK
      <4> QED BY <4>1, <4>2 DEF Queued
    <3> QED BY <3>1 DEF Inv, OneRequest, Untouched
  <2> QED BY <1>2, <1>4, <2>1, <2>2 DEF InOrder, Iso
<1> QED BY <1>2, <1>5, <1>6, <1>7, <1>8, <1>9 DEF Inv, VerifiedIsIsolated

\* FIM brings its inventory up to date.
LEMMA ReportStep ==
  ASSUME Inv, NEW n \in Op, FimReports(n)
  PROVE  Inv'
<1>1. /\ UNCHANGED <<table, marker, script, inbox, wire, job, phase, proven, amiss, disturbed>>
      /\ UNCHANGED <<faults, late, reboots>>
      /\ \/ n \in marker /\ reported' = reported \cup {n}
         \/ n \notin marker /\ n \in reported /\ reported' = reported \ {n}
  BY DEF FimReports, endpoint, history, bounds
<1>2. ASSUME NEW k \in Op PROVE OneRequest(k)' /\ ReportOK(k)'
  <2>1. OneRequest(k) /\ ReportOK(k)
    BY DEF Inv
  <2>2. /\ k \in reported' => k \in reported \/ k \in marker
        /\ k \in reported /\ k \notin reported' => k \notin marker
    BY <1>1
  <2>3. /\ Unsent(k)' <=> Unsent(k)
        /\ Isolating(k)' <=> Isolating(k)
        /\ Queued(k)' <=> Queued(k)
        /\ Iso(k)' = Iso(k)
    BY <1>1 DEF Unsent, Isolating, Queued, Iso
  <2>4. Untouched(k) => Untouched(k)'
    BY <1>1, <2>2 DEF Untouched
  <2>5. OneRequest(k)'
    BY <1>1, <2>1, <2>2, <2>3, <2>4 DEF OneRequest
  <2>6. ReportOK(k)'
    BY <1>1, <2>1, <2>2 DEF ReportOK
  <2> QED BY <2>5, <2>6
<1>3. ASSUME ~disturbed, NEW k \in Op, Applied(k)' PROVE InOrder(k)'
  <2>1. InOrder(k)
    BY <1>1, <1>3 DEF Inv, Applied
  <2> QED BY <1>1, <2>1 DEF InOrder, Iso
<1>4. TypeOK' /\ CallsOK'
  BY <1>1 DEF Inv, TypeOK, CallsOK
<1> QED BY <1>1, <1>2, <1>3, <1>4 DEF Inv, VerifiedIsIsolated

\* The endpoint restarts, or a script fails.
LEMMA StopSteps ==
  ASSUME Inv, Reboot \/ ScriptFails
  PROVE  Inv'
<1>1. /\ script' = NoScript /\ table' \in {table, NoOp}
      /\ UNCHANGED <<marker, reported, inbox, wire, job, phase, proven, amiss>>
      /\ (disturbed' = disturbed /\ table' = table) \/ disturbed' = TRUE
  <2>1. CASE Reboot
    BY <2>1 DEF Reboot, manager
  <2>2. CASE ScriptFails
    BY <2>2 DEF ScriptFails, manager, history
  <2> QED BY <2>1, <2>2
<1>2. faults' \in Nat /\ late' \in Nat /\ reboots' \in Nat
  <2>1. faults \in Nat /\ late \in Nat /\ reboots \in Nat
    BY DEF Inv, TypeOK
  <2>2. CASE Reboot
    BY <2>1, <2>2 DEF Reboot
  <2>3. CASE ScriptFails
    BY <2>1, <2>3 DEF ScriptFails, Fault
  <2> QED BY <2>2, <2>3
<1>3. TypeOK'
  BY <1>1, <1>2 DEF Inv, TypeOK
<1>4. \A k \in Op : table' = k => table = k
  BY <1>1, Calls
<1>5. ASSUME NEW k \in Op PROVE OneRequest(k)' /\ ReportOK(k)'
  <2>1. OneRequest(k) /\ ReportOK(k)
    BY DEF Inv
  <2>2. /\ Unsent(k)' <=> Unsent(k)
        /\ ~Isolating(k)'
        /\ Queued(k)' <=> Queued(k)
        /\ Untouched(k) => Untouched(k)'
        /\ Iso(k)' = Iso(k)
    BY <1>1, <1>4 DEF Unsent, Isolating, Queued, Untouched, Iso, NoScript
  <2>3. OneRequest(k)'
    BY <1>1, <2>1, <2>2 DEF OneRequest
  <2>4. ReportOK(k)'
    BY <1>1, <1>4, <2>1 DEF ReportOK
  <2> QED BY <2>3, <2>4
<1>6. CallsOK'
  <2>1. job = NoJob \/ job.op \in Op
    BY Calls
  <2> QED BY <1>1, <1>4, <2>1 DEF Inv, CallsOK, NoJob
<1>7. ASSUME ~disturbed', NEW k \in Op, Applied(k)' PROVE InOrder(k)'
  <2>1. ~disturbed /\ table' = table
    BY <1>1, <1>7
  <2>2. InOrder(k)
    BY <1>1, <1>7, <2>1 DEF Inv, Applied
  <2> QED BY <1>1, <2>1, <2>2 DEF InOrder, Iso
<1>8. VerifiedIsIsolated'
  <2>1. CASE disturbed' = disturbed
    BY <1>1, <2>1 DEF Inv, VerifiedIsIsolated
  <2>2. CASE disturbed' = TRUE
    BY <2>2 DEF VerifiedIsIsolated
  <2> QED BY <1>1, <2>1, <2>2
<1>9. script'.run # "restore"
  BY <1>1 DEF NoScript
<1> QED BY <1>3, <1>5, <1>6, <1>7, <1>8, <1>9 DEF Inv
-----------------------------------------------------------------------------
(* The script on the endpoint.                                             *)

\* The script that is running.
LEMMA Scripts ==
  ASSUME Inv, script # NoScript
  PROVE  /\ script.run \in {"isolate", "restore"} /\ script.op \in Op
         /\ script \in [run: {"isolate", "restore"}, op: Op, step: {"nft", "marker"}]
         /\ \A k \in Op : disturbed \/ (Applied(k) => k \notin marker /\ k \notin reported)
  BY DEF Inv, TypeOK, InOrder

\* A ruleset is installed or deleted.
LEMMA RulesSteps ==
  ASSUME Inv, IsolateRules \/ RestoreRules
  PROVE  Inv'
<1>1. PICK n, run : n = script.op /\ run = script.run
  OBVIOUS
<1>2. /\ script # NoScript /\ script' = [script EXCEPT !.step = "marker"]
      /\ (run = "isolate" /\ table' = n) \/ (run = "restore" /\ table' = NoOp)
      /\ UNCHANGED <<marker, reported, inbox, wire, job, phase, proven, amiss, disturbed>>
      /\ UNCHANGED <<faults, late, reboots>>
  <2>1. CASE IsolateRules
    BY <1>1, <2>1 DEF IsolateRules, AtStep, NextStep, NoScript, manager, history, bounds
  <2>2. CASE RestoreRules
    BY <1>1, <2>2 DEF RestoreRules, AtStep, NextStep, NoScript, manager, history, bounds
  <2> QED BY <2>1, <2>2
<1>3. /\ n \in Op /\ run \in {"isolate", "restore"} /\ NoOp \notin Op
      /\ script'.run = run /\ script'.op = n /\ script'.step = "marker"
      /\ script' \in [run: {"isolate", "restore"}, op: Op, step: {"nft", "marker"}]
      /\ \A k \in Op : disturbed \/ (Applied(k) => k \notin marker /\ k \notin reported)
  BY <1>1, <1>2, Scripts, IsolationAssumption
<1>4. \A k \in Op : table' = k => run = "isolate" /\ k = n /\ Isolating(k)
  BY <1>1, <1>2, <1>3 DEF Isolating
<1>5. ASSUME NEW k \in Op PROVE OneRequest(k)' /\ ReportOK(k)'
  <2>1. OneRequest(k) /\ ReportOK(k)
    BY DEF Inv
  <2>2. /\ Unsent(k)' <=> Unsent(k)
        /\ Isolating(k)' <=> Isolating(k)
        /\ Queued(k)' <=> Queued(k)
        /\ Iso(k)' = Iso(k)
    BY <1>1, <1>2, <1>3 DEF Unsent, Isolating, Queued, Iso
  <2>3. ~Isolating(k) /\ Untouched(k) => Untouched(k)'
    BY <1>2, <1>4 DEF Untouched
  <2>4. Isolating(k)' => table' = k
    BY <1>2, <1>3 DEF Isolating
  <2>5. OneRequest(k)'
    BY <1>2, <2>1, <2>2, <2>3, <2>4 DEF OneRequest
  <2>6. ReportOK(k)'
    BY <1>2, <1>4, <2>1 DEF ReportOK, OneRequest
  <2> QED BY <2>5, <2>6
<1>6. CallsOK'
  <2>1. job = NoJob \/ job.op \in Op
    BY Calls
  <2>2. (job # NoJob /\ job.op \in proven) => table' # job.op
    BY <1>4, <2>1 DEF Inv, OneRequest
  <2> QED BY <1>2, <2>2 DEF Inv, CallsOK, NoJob
<1>7. ASSUME ~disturbed, NEW k \in Op, Applied(k)' PROVE InOrder(k)'
  <2>1. Applied(k)
    BY <1>2, <1>7 DEF Applied
  <2>2. InOrder(k) /\ k \notin marker /\ k \notin reported
    BY <1>3, <1>7, <2>1 DEF Inv
  <2> QED BY <1>2, <2>2 DEF InOrder, Iso
<1>8. (script'.run = "restore" /\ script'.step = "marker") => table' = NoOp
  BY <1>2, <1>3
<1>9. TypeOK'
  BY <1>2, <1>3 DEF Inv, TypeOK
<1> QED BY <1>2, <1>5, <1>6, <1>7, <1>8, <1>9 DEF Inv, VerifiedIsIsolated

\* A marker is written or deleted.
LEMMA MarkerSteps ==
  ASSUME Inv, IsolateMarker \/ RestoreMarker
  PROVE  Inv'
<1>1. PICK n, run : n = script.op /\ run = script.run
  OBVIOUS
<1>2. /\ script # NoScript /\ script' = NoScript /\ script.step = "marker"
      /\ \/ run = "isolate" /\ marker' = marker \cup {n}
         \/ run = "restore" /\ marker' = marker \ {n}
      /\ UNCHANGED <<table, reported, inbox, wire, job, phase, proven, amiss, disturbed>>
      /\ UNCHANGED <<faults, late, reboots>>
  BY <1>1 DEF IsolateMarker, RestoreMarker, AtStep, NoScript, manager, history, bounds
<1>3. /\ n \in Op /\ NoOp \notin Op
      /\ \A k \in Op : disturbed \/ (Applied(k) => k \notin marker /\ k \notin reported)
      /\ run = "restore" => table = NoOp
      /\ run = "isolate" => table = n /\ Isolating(n)
  <2>1. /\ n \in Op /\ NoOp \notin Op
        /\ \A k \in Op : disturbed \/ (Applied(k) => k \notin marker /\ k \notin reported)
    BY <1>1, <1>2, Scripts, IsolationAssumption
  <2>2. run = "isolate" => table = n /\ Isolating(n)
    BY <1>1, <1>2, <2>1 DEF Inv, OneRequest, Isolating
  <2> QED BY <1>1, <1>2, <2>1, <2>2 DEF Inv
<1>4. \A k \in Op : ~Isolating(k)'
  BY <1>2 DEF Isolating, NoScript
<1>5. \A k \in Op : k \in marker' => k \in marker \/ (k = n /\ run = "isolate")
  BY <1>2
<1>6. ASSUME NEW k \in Op PROVE OneRequest(k)' /\ ReportOK(k)'
  <2>1. OneRequest(k) /\ ReportOK(k)
    BY DEF Inv
  <2>2. /\ Unsent(k)' <=> Unsent(k)
        /\ Queued(k)' <=> Queued(k)
        /\ Iso(k)' = Iso(k)
    BY <1>2 DEF Unsent, Queued, Iso
  <2>3. ~Isolating(k) /\ Untouched(k) => Untouched(k)'
    BY <1>2, <1>3, <1>5 DEF Untouched
  <2>4. OneRequest(k)'
    BY <1>2, <1>4, <2>1, <2>2, <2>3 DEF OneRequest
  <2>5. k \in marker /\ k \notin marker' => table = NoOp
    BY <1>2, <1>3
  <2>6. ReportOK(k)'
    BY <1>2, <1>3, <2>1, <2>5 DEF ReportOK
  <2> QED BY <2>4, <2>6
<1>7. ASSUME ~disturbed, NEW k \in Op, Applied(k)' PROVE InOrder(k)'
  <2>1. Applied(k)
    BY <1>2, <1>7 DEF Applied
  <2>2. InOrder(k) /\ k \notin marker /\ k \notin reported
    BY <1>3, <1>7, <2>1 DEF Inv
  <2> QED BY <1>2, <1>3, <1>5, <2>2 DEF InOrder, Iso
<1>8. (script'.run = "restore" /\ script'.step = "marker") => table' = NoOp
  BY <1>2 DEF NoScript
<1>9. TypeOK' /\ CallsOK'
  <2>1. marker' \subseteq Op
    BY <1>2, <1>3 DEF Inv, TypeOK
  <2> QED BY <1>2, <2>1 DEF Inv, TypeOK, CallsOK
<1> QED BY <1>2, <1>6, <1>7, <1>8, <1>9 DEF Inv, VerifiedIsIsolated
-----------------------------------------------------------------------------
(* The theorems.                                                           *)

\* Each operation has one isolate request, markers and reports follow the
\* ruleset, and an undisturbed endpoint runs nothing behind an isolation.
THEOREM Invariance == Spec => []Inv
<1>1. Init => Inv
  <2> SUFFICES ASSUME Init PROVE Inv
    OBVIOUS
  <2>1. TypeOK /\ CallsOK
    <3>1. TypeOK
      <4>1. /\ table \in Op \cup {NoOp} /\ marker \subseteq Op /\ reported \subseteq Op /\ wire \subseteq Request
            /\ proven \subseteq Op /\ faults \in Nat /\ late \in Nat /\ reboots \in Nat
        BY DEF Init
      <4>2. amiss \in BOOLEAN /\ disturbed \in BOOLEAN
        BY DEF Init
      <4>3. inbox \in Seq(Request) /\ phase \in [Op -> {"new", "unknown", "applied", "verified", "ended"}]
        BY DEF Init
      <4>4. script = NoScript /\ job = NoJob
        BY DEF Init
      <4> QED BY <4>1, <4>2, <4>3, <4>4 DEF TypeOK
    <3>2. job.call = "none" /\ \A k \in Op : phase[k] = "new"
      BY DEF Init, NoJob
    <3> QED BY <3>1, <3>2 DEF CallsOK
  <2>2. ASSUME NEW k \in Op PROVE OneRequest(k) /\ ReportOK(k)
    <3>1. Len(inbox) = 0 /\ wire = {} /\ script.run = "none"
      BY DEF Init, NoScript
    <3>2. ~Queued(k) /\ ~Isolating(k) /\ Untouched(k)
      BY <3>1, IsolationAssumption DEF Init, Queued, Isolating, Untouched
    <3> QED BY <3>1, <3>2 DEF Init, OneRequest, ReportOK, Untouched
  <2>3. \A k \in Op : ~Applied(k)
    BY DEF Init, Applied, NoJob
  <2> QED BY <2>1, <2>2, <2>3 DEF Init, Inv, VerifiedIsIsolated, NoScript
<1>2. Inv /\ [Next]_vars => Inv'
  <2> SUFFICES ASSUME Inv, [Next]_vars PROVE Inv'
    OBVIOUS
  <2>1. CASE UNCHANGED vars
    BY <2>1 DEF vars, endpoint, manager, history, bounds, Inv, TypeOK, CallsOK, OneRequest, ReportOK,
                Queued, Isolating, Untouched, Unsent, Applied, InOrder, Iso, VerifiedIsIsolated
  <2>2. CASE \E k \in Op : StartApply(k) \/ StartVerify(k) \/ StartRevert(k) \/ FimReports(k)
    BY <2>2, StartSteps, ReportStep
  <2>3. CASE Adapter
    BY <2>3, TriggerSteps, AwaitSteps, EndSteps DEF Adapter
  <2>4. CASE Agent
    BY <2>4, TakeSteps, RulesSteps, MarkerSteps, StopSteps DEF Agent
  <2>5. CASE Arrive \/ Lose \/ Reboot
    BY <2>5, ArriveStep, TakeSteps, StopSteps
  <2> QED BY <2>1, <2>2, <2>3, <2>4, <2>5 DEF Next
<1> QED BY <1>1, <1>2, PTL DEF Spec

\* A verified isolation that was reported reverted is lifted, whatever was lost,
\* late or restarted.
THEOREM VerifiedIsLifted == Spec => []VerifiedIsolationLifted
<1>1. Inv => VerifiedIsolationLifted
  BY DEF Inv, TypeOK, ReportOK, VerifiedIsolationLifted
<1> QED BY <1>1, Invariance, PTL

\* A verification succeeds only over the operation's own isolation, unless a
\* late request arrived or the endpoint restarted.
THEOREM VerificationIsTrue == Spec => []VerifiedIsIsolated
<1>1. Inv => VerifiedIsIsolated
  BY DEF Inv
<1> QED BY <1>1, Invariance, PTL
=============================================================================
