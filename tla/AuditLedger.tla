---------------------------- MODULE AuditLedger ----------------------------
(***************************************************************************)
(* The two audit ledgers that stand beside the store of the response       *)
(* service: InMemoryAuditLedger (response/orchestrator/audit.py), the      *)
(* reference for the lifecycle, and SQLiteAuditLedger (sqlite_audit.py), a *)
(* durable file that several processes may write.                          *)
(*                                                                         *)
(* A call is atomic: BEGIN IMMEDIATE makes the file's read and write one   *)
(* step, so that calls of several processes are a sequence of calls, and a *)
(* restart loses nothing of the file.  A call returns the set of the       *)
(* ledger after it, or {} when it raises.  The payload of an event is what *)
(* the ledgers read of it.                                                 *)
(***************************************************************************)
EXTENDS Naturals, Sequences, FiniteSets, SequencesExt

STATES == {"REQUESTED", "APPLIED", "VERIFIED", "EXPIRED", "ROLLED_BACK", "FAILED"}
TERMINAL_STATES == {"EXPIRED", "ROLLED_BACK"}
NoState == "none"

_ALLOWED(state) ==
  CASE state = NoState -> {"REQUESTED"}
    [] state = "REQUESTED" -> {"APPLIED", "FAILED", "ROLLED_BACK"}
    [] state = "APPLIED" -> {"VERIFIED", "ROLLED_BACK", "FAILED"}
    [] state = "VERIFIED" -> {"EXPIRED", "ROLLED_BACK", "FAILED"}
    [] state = "FAILED" -> {"FAILED", "ROLLED_BACK"}
    [] state \in TERMINAL_STATES -> {}

LastState(history) == IF history = <<>> THEN NoState ELSE Last(history).state

\* AuditEventFactory.build for a caller that has read this much of the history.
EventOf(response, policy, state, intent, at, read) ==
  [response_id |-> response, policy_id |-> policy, state |-> state, action_intent |-> intent,
   at |-> at, previous_state |-> LastState(read), transition_number |-> Len(read) + 1]

\* Mutant: what recovery needs is only asked of a failed response.
validate_transitionLax(e, history) ==
  /\ e.previous_state = LastState(history)
  /\ e.state \in _ALLOWED(LastState(history))
  /\ LastState(history) = "FAILED" =>
       (\E i \in DOMAIN history : history[i].state = "APPLIED") \/ e.action_intent
  /\ e.transition_number = Len(history) + 1

validate_transition(e, history) ==
  /\ e.previous_state = LastState(history)
  /\ e.state \in _ALLOWED(LastState(history))
  /\ (\/ LastState(history) = "FAILED"
      \/ LastState(history) = "REQUESTED" /\ e.state = "ROLLED_BACK")
     => (\E i \in DOMAIN history : history[i].state = "APPLIED") \/ e.action_intent
  /\ e.transition_number = Len(history) + 1
-----------------------------------------------------------------------------
(* The ledger in memory: a dictionary of histories.                        *)

\* A dictionary after an assignment to one of its keys.
Stored(dictionary, key, value) ==
  [k \in DOMAIN dictionary \cup {key} |-> IF k = key THEN value ELSE dictionary[k]]

NewMemory == [by_response |-> <<>>, apply_intents |-> {}, commands |-> <<>>]

MemoryEvents(m, r) == IF r \in DOMAIN m.by_response THEN m.by_response[r] ELSE <<>>

MemorySave(m, r, command) ==
  IF r \in DOMAIN m.commands /\ m.commands[r] # command THEN {}
  ELSE {[m EXCEPT !.commands = Stored(@, r, command)]}

MemoryClaim(m, r) ==
  IF r \in m.apply_intents \/ LastState(MemoryEvents(m, r)) # "REQUESTED" THEN {}
  ELSE {[m EXCEPT !.apply_intents = @ \cup {r}]}

MemoryAppend(m, e) ==
  LET history == MemoryEvents(m, e.response_id)
  IN  IF ~validate_transition(e, history) THEN {}
      ELSE {[m EXCEPT !.by_response = Stored(@, e.response_id, Append(history, e))]}

MemoryRequestedSince(m, policy, since) ==
  LET counted(e) == e.state = "REQUESTED" /\ e.policy_id = policy /\ e.at > since
      events(r) == {i \in DOMAIN m.by_response[r] : counted(m.by_response[r][i])}
  IN  Cardinality(UNION {{r} \X events(r) : r \in DOMAIN m.by_response})
-----------------------------------------------------------------------------
(* The ledger in a file: tables whose rows no trigger lets change.         *)

NewFile == [commands |-> {}, apply_intents |-> {}, audit |-> {}]

\* events: the rows of a response in the order of their numbers.
FileEvents(f, r) ==
  LET rows == {e \in f.audit : e.response_id = r}
      before(e) == {x \in rows : x.transition_number < e.transition_number}
  IN  [n \in 1 .. Cardinality(rows) |-> CHOOSE e \in rows : Cardinality(before(e)) = n - 1]

FileSave(f, r, command) ==
  LET previous == {c \in f.commands : c.response_id = r}
  IN  IF \E c \in previous : c.body # command THEN {}
      ELSE {IF previous # {} THEN f
            ELSE [f EXCEPT !.commands = @ \cup {[response_id |-> r, body |-> command]}]}

\* Mutant: a claim that is already there is no error.
FileClaimAgain(f, r) ==
  IF LastState(FileEvents(f, r)) # "REQUESTED" THEN {}
  ELSE {[f EXCEPT !.apply_intents = @ \cup {r}]}

FileClaim(f, r) ==
  IF LastState(FileEvents(f, r)) # "REQUESTED" \/ r \in f.apply_intents THEN {}
  ELSE {[f EXCEPT !.apply_intents = @ \cup {r}]}

\* append replays the history of the response, with the event, into a new
\* ledger in memory, which validates each event after those before it; a number
\* that is taken violates the primary key.
FileAppend(f, e) ==
  LET replay == Append(FileEvents(f, e.response_id), e)
      valid == \A i \in DOMAIN replay : validate_transition(replay[i], SubSeq(replay, 1, i - 1))
      taken == \E x \in f.audit : /\ x.response_id = e.response_id
                                  /\ x.transition_number = e.transition_number
  IN  IF ~valid \/ taken THEN {} ELSE {[f EXCEPT !.audit = @ \cup {e}]}

FileRequestedSince(f, policy, since) ==
  Cardinality({e \in f.audit : e.transition_number = 1 /\ e.policy_id = policy /\ e.at > since})

\* Mutant: a failed response needs no recovery.
recovery_queueUnfailed(f) ==
  {r \in f.apply_intents : LET last == LastState(FileEvents(f, r))
                           IN  last \notin TERMINAL_STATES \cup {NoState, "FAILED"}}

\* recovery_queue: attempted writes that are not lifted.
recovery_queue(f) ==
  {r \in f.apply_intents : LastState(FileEvents(f, r)) \notin TERMINAL_STATES \cup {NoState}}
-----------------------------------------------------------------------------
(* Both ledgers under the same calls.                                      *)

NewLedgers == [memory |-> NewMemory, file |-> NewFile, alike |-> TRUE]

Save(r, command) == [kind |-> "save", response |-> r, command |-> command]
Claim(r) == [kind |-> "claim", response |-> r]
Record(e) == [kind |-> "append", event |-> e]

\* The ledgers after a call; a call that raises leaves a ledger as it was.
Called(l, call) ==
  LET m == CASE call.kind = "save" -> MemorySave(l.memory, call.response, call.command)
             [] call.kind = "claim" -> MemoryClaim(l.memory, call.response)
             [] call.kind = "append" -> MemoryAppend(l.memory, call.event)
      f == CASE call.kind = "save" -> FileSave(l.file, call.response, call.command)
             [] call.kind = "claim" -> FileClaim(l.file, call.response)
             [] call.kind = "append" -> FileAppend(l.file, call.event)
      After(old, new) == IF new = {} THEN old ELSE CHOOSE x \in new : TRUE
  IN  [memory |-> After(l.memory, m), file |-> After(l.file, f), alike |-> (m = {}) <=> (f = {})]
=============================================================================
