---------------------------- MODULE MCAlgorithms ----------------------------
(* Inputs of the algorithms for TLC.                                       *)
EXTENDS Algorithms

CONSTANTS r1, r2

\* The one response may live long, the other is requested and changed once.
MCMaxEvents == (r1 :> 4) @@ (r2 :> 2)

Event(id, at) ==
  [id |-> id, at |-> at, dataset |-> "suricata.eve", type |-> "flow", src |-> "a", host |-> Missing,
   dst |-> "d1", port |-> "p1", blocked |-> FALSE, sent |-> 3, received |-> 2, query |-> FALSE,
   domain |-> Missing, alert |-> FALSE, categories |-> {}, outcome |-> "unknown",
   process |-> Missing, text |-> {}]

Endpoint(id, at) ==
  [Event(id, at) EXCEPT !.dataset = "wazuh", !.type = "", !.src = Missing, !.host = "h1"]

\* Flows, a blocked packet with a damaged length, records that describe a flow
\* again, an id that is used twice in a window and in two windows, telemetry
\* that is not normalized, and events of an endpoint.
Pool ==
  {Event(1, 0),
   [Event(2, 4) EXCEPT !.dataset = "firewall.syslog", !.type = "", !.blocked = TRUE,
                       !.dst = "d2", !.sent = -1],
   [Event(3, 4) EXCEPT !.type = "alert", !.port = "p2", !.sent = 9],
   [Event(4, 5) EXCEPT !.src = "b"],
   [Event(1, 0) EXCEPT !.sent = 7],
   Event(1, 6),
   [Event(5, 20) EXCEPT !.dataset = "raw"],
   [Event(6, 9) EXCEPT !.type = "dns", !.query = TRUE, !.domain = "x"],
   [Event(7, 7) EXCEPT !.src = "invalid"],
   [Endpoint(8, 2) EXCEPT !.categories = {"process"}, !.process = "tool", !.text = {"powershell"}],
   [Endpoint(9, 5) EXCEPT !.categories = {"authentication", "file"}, !.outcome = "failure"]}

MCCaptures == UNION {[1 .. n -> Pool] : n \in 0 .. 3}

MCHistories ==
  [1 .. 4 -> {[schema |-> s, entity |-> e, window_end |-> t, features |-> <<s, e, t>>] :
                s \in {NETWORK}, e \in {"a", "b"}, t \in {5, 10, 15}}
             \cup {[schema |-> ENDPOINT, entity |-> "a", window_end |-> 10, features |-> <<>>]}]
-----------------------------------------------------------------------------
Quiet == NoEvents(NETWORK)
Alerted == [Quiet EXCEPT !.suricata_alert_count = 1]
Scan == [Quiet EXCEPT !.connection_count = 10, !.blocked_ratio = <<5, 10>>, !.unique_dst_port = 3]
Busy == [Scan EXCEPT !.blocked_ratio = <<4, 10>>]
Shapes == {Quiet, Alerted, Busy}

\* One model without history and one that scores the two last windows.
Forest(x, y, z) ==
  [length |-> 1, score |-> (<<Quiet>> :> x) @@ (<<Alerted>> :> y) @@ (<<Busy>> :> z) @@ (<<Scan>> :> z)]
Recurrent ==
  [length |-> 2, score |-> [m \in [1 .. 2 -> Shapes \cup {Scan}] |->
                              IF m[2] # Quiet THEN 2 ELSE IF m[1] # Quiet THEN 4 ELSE 0]]
Models == {Forest(0, 2, 4), Forest(2, 4, 4), Forest(4, 0, 2), Recurrent}

Sample(end, shape, attack) ==
  [vector |-> [schema |-> NETWORK, entity |-> "a", window_end |-> end, features |-> shape],
   attack |-> attack, scenario |-> IF attack THEN "s1" ELSE NoScenario, onset |-> 3]
Samples(end) == {Sample(end, s, k) : s \in Shapes, k \in BOOLEAN}

MCBenchmarks ==
  [model : Models, minutes : {10}, budget : {0, 6, 12},
   validation : {<<x, y, z>> : x \in Samples(5), y \in Samples(10), z \in Samples(15)},
   test : {<<Sample(5, Quiet, FALSE), Sample(10, Alerted, TRUE), Sample(15, Busy, TRUE)>>,
           <<Sample(5, Busy, TRUE), Sample(10, Scan, TRUE), Sample(15, Alerted, TRUE)>>}]
-----------------------------------------------------------------------------
Flow(id, at, entity) == [Event(id, at) EXCEPT !.src = entity]

Optional ==
  {Flow(1, 1430, "a"), Flow(2, 1436, "b"), Flow(3, 1435, "a"), Flow(4, 1442, "b"), Flow(5, 1451, "b"),
   Flow(4, 2881, "c"), Flow(7, 2886, "a")}

\* The events every dataset needs, some that it may have, and perhaps a copy.
EventSets ==
  {SetToSeq(O) \o <<Flow(11, 1431, "c"), Flow(12, 1446, "a"), Flow(13, 1447, "c"),
                    Flow(14, 2882, "a"), Flow(15, 2883, "b")>> \o copy :
     O \in SUBSET Optional, copy \in {<<>>, <<Flow(13, 1447, "c")>>}}

Scenario(id, entity, start, end) == [id |-> id, entity |-> entity, start |-> start, end |-> end]

MCExperiments ==
  [schema : {NETWORK}, events : EventSets,
   boundaries : {<<1430, 1440, 2880, 2890>>, <<1430, 1440, 1450, 2890>>, <<1430, 1440, 2880, 2888>>},
   scenarios : {<<Scenario("s1", "a", 1446, 1448), Scenario("s2", "b", 2880, 2884)>>,
                <<Scenario("s1", "a", 1435, 1447), Scenario("s2", "b", 2880, 2884)>>,
                <<Scenario("s1", "a", 1430, 1435), Scenario("s2", "a", 1445, 1450),
                  Scenario("s3", "b", 2883, 2885)>>,
                <<Scenario("s1", "c", 1445, 1448), Scenario("s2", "b", 1436, 1437),
                  Scenario("s3", "a", 2880, 2890)>>}]
-----------------------------------------------------------------------------
Address(v) == [type |-> "ip", value |-> v, spelling |-> "canonical"]

World == [special |-> {"loopback"}, reserved |-> {}, private |-> {}]

Rule ==
  [id |-> "COR-001", enabled |-> TRUE, action |-> "block_ip", ttl |-> 900, min_ai_score |-> 90,
   require_any |-> {[kind |-> "suricata", min_severity |-> 3, min_count |-> Absent],
                    [kind |-> "authentication", min_severity |-> Absent, min_count |-> 2]}]

Document ==
  [protections |-> [allowlisted |-> {}, protected |-> {"server"}, block_private |-> FALSE,
                    protected_hosts |-> {}, isolation_hosts |-> {}],
   rate_limit |-> [max_actions |-> 5, window |-> 300], dedup |-> 900,
   command_valid_for |-> 300, evidence_max_age |-> 900, policies |-> <<Rule>>]

\* The same document, one that protects more, one whose rule lasts longer and
\* one with another rule as well.
Documents ==
  {Document,
   [Document EXCEPT !.protections.protected = {"server", "host"}],
   [Document EXCEPT !.policies = <<[Rule EXCEPT !.ttl = 3600]>>],
   [Document EXCEPT !.policies = <<[Rule EXCEPT !.id = "COR-002"], Rule>>]}

Signal(kind, reference, severity, count, at, value) ==
  [type |-> kind, reference |-> reference, severity |-> severity, count |-> count,
   observed_at |-> at, target |-> Address(value)]

SignalPool ==
  {Signal("suricata", "r1", 3, Absent, 1000, "host"), Signal("suricata", "r2", Absent, 9, 1000, "host"),
   Signal("authentication", "r3", 9, 2, 1000, "host"), Signal("authentication", "r4", 9, 1, 1000, "host"),
   Signal("suricata", "r5", 3, Absent, 999, "host"), Signal("suricata", "r6", 3, Absent, 1001, "host"),
   Signal("suricata", "event", 3, Absent, 1000, "host"), Signal("suricata", "r7", 3, 2, 1000, "server")}

MCRequests ==
  [doc : Documents, world : {World}, policy : {"COR-001"}, target : {Address("host"), Address("server")},
   now : {939, 940, 1000, 1899, 1900, 1901},
   signals : UNION {[1 .. n -> SignalPool] : n \in 0 .. 2},
   anomaly : {[event_id |-> "event", score |-> s, threshold |-> 92, is_anomaly |-> s >= 92,
               observed_at |-> 1000, target |-> Address(v)] : s \in {91, 95}, v \in {"host", "server"}}]
-----------------------------------------------------------------------------
Test(file, function) == [file |-> file, function |-> function]
Control(id, applicable, a, b) ==
  [id |-> id, applicable |-> applicable, verified_by |-> a, verified_by_path_b |-> b]

Catalogs ==
  {<<Control("C1", {}, Test("t.py", "one"), Test("audit.py", "one")),
     Control("C2", {"path-a"}, Test("t.py", "two"), NoTest)>>,
   <<Control("C1", {}, Test("t.py", "one"), Test("audit.py", "one")),
     Control("C2", {}, Test("t.py", "one"), Test("audit.py", "two"))>>}

Files ==
  {[dir |-> "tests", file |-> "t.py", functions |-> {"one", "two"}],
   [dir |-> "scripts", file |-> "audit.py", functions |-> {"one", "two"}]}

Ran(runner, dir, test, claims, setup, call, teardown, recorded) ==
  [runner |-> runner, node |-> [dir |-> dir] @@ test, claims |-> claims, setup |-> setup,
   call |-> call, teardown |-> teardown, recorded |-> recorded]

\* What became of the test of a control.
Runs(name, control) ==
  {Ran("pytest", "tests", Test("t.py", name), control, "passed", c, t, r) :
     c \in {"passed", "failed", "error"}, t \in {"passed", "error"}, r \in BOOLEAN}
  \cup {Ran("pytest", "tests", Test("t.py", name), control, "error", "passed", "passed", TRUE),
        Ran("pytest", "tests", Test("t.py", name), "C1", "passed", "passed", "passed", TRUE),
        Ran("script", "", Test("t.py", name), control, "passed", "passed", "passed", TRUE),
        Ran("script", "", Test("other.sh", name), control, "passed", "passed", "passed", TRUE)}
  \cup {Ran("audit", "", Test("audit.py", name), control, "passed", c, "passed", TRUE) :
          c \in {"passed", "failed", "error"}}

Good(runner, dir, file, name, control) ==
  Ran(runner, dir, Test(file, name), control, "passed", "passed", "passed", TRUE)

\* Checkouts, and those in a build that names its revision.
Worlds == [head : {0, 1}, work : {0, 1}, untracked : BOOLEAN, git : BOOLEAN, settings : {0, 1},
           GIT_SHA : {<<>>}]
Clean == [head |-> 0, work |-> 0, untracked |-> FALSE, git |-> TRUE, settings |-> 0, GIT_SHA |-> <<>>]
Named == [head : {0, 1}, work : {0, 1}, untracked : BOOLEAN, git : BOOLEAN, settings : {0},
          GIT_SHA : {<<0>>}]

MCAudits ==
  [catalog : Catalogs, files : {Files}, profile : PROFILES, environment : {"path-a"},
   tested : Worlds, reported : Worlds,
   tests : {<<Good("pytest", "tests", "t.py", "one", "C1"), Good("pytest", "tests", "t.py", "two", "C2")>>}]
  \cup
  [catalog : Catalogs, files : {Files}, profile : PROFILES, environment : {"path-a"},
   tested : Named, reported : Named \cup {Clean},
   tests : {<<Good("pytest", "tests", "t.py", "one", "C1"), Good("pytest", "tests", "t.py", "two", "C2")>>}]
  \cup
  [catalog : Catalogs, files : {Files}, profile : PROFILES, environment : {"path-a", "path-b"},
   tested : {Clean}, reported : {Clean},
   tests : {<<>>} \cup {<<x, y>> : x \in Runs("one", "C1"), y \in Runs("two", "C2")}
           \cup {<<x>> : x \in Runs("one", "C1")}]
-----------------------------------------------------------------------------
Ip(value, version, special) == [value |-> value, version |-> version, special |-> special]
Ips == {Ip("a", 4, FALSE), Ip("b", 6, FALSE), Ip("c", 4, TRUE)}

\* The least, a usual and the largest time to live of a policy.
MCFirewalls ==
  [firewall : [backend : {"nftables", "opnsense", "vyos"}, permitted : BOOLEAN, broken : BOOLEAN,
               entries : SUBSET {Entry("host", a, Forever) : a \in Ips}
                         \cup {{Entry("network", a, Forever)} : a \in Ips}],
   address : Ips, ttl : {60, 900, 86400}]
-----------------------------------------------------------------------------
LabCommand(found, hangs, rc) == [found |-> found, hangs |-> hangs, rc |-> rc, ok_codes |-> {0, 5}]
Fine == [kind |-> "cmds", cmds |-> <<LabCommand(TRUE, FALSE, 0), LabCommand(TRUE, FALSE, 5)>>]

\* Commands that are missing, hang or fail, no command, checks and an exception.
Faults ==
  {[kind |-> "cmds", cmds |-> <<LabCommand(TRUE, FALSE, 0), c>>] :
     c \in {LabCommand(FALSE, FALSE, 0), LabCommand(TRUE, TRUE, 0), LabCommand(TRUE, FALSE, 2)}}
  \cup {[kind |-> "cmds", cmds |-> <<>>], [kind |-> "raises"],
        [kind |-> "check", status |-> "WARN"], [kind |-> "check", status |-> "FAIL"]}

Ids == {Stages[i].id : i \in DOMAIN Stages}

\* One stage with any fault, or two that fail.
Single == {[id \in Ids |-> IF id = a THEN f ELSE Fine] : a \in Ids, f \in Faults}
Outcomes ==
  Single \cup {[id \in Ids |-> IF id \in {a, b} THEN [kind |-> "raises"] ELSE Fine] : a, b \in Ids}

MCTrials ==
  [mode : {"full"}, only : {{}}, start : {{}}, skip : {{}, {"fabric-verify", "soc-up"}},
   fail_fast : {FALSE}, dry_run : {FALSE}, work : Outcomes]
  \cup
  [mode : All, only : {{}}, start : {{}, {"images"}, {"fabric-up"}},
   skip : {{}, {"fabric-verify", "soc-up"}}, fail_fast : BOOLEAN, dry_run : {FALSE}, work : Single]
  \cup
  [mode : {"full"}, only : {{}, {"soc-up", "soc-smoke", "mgmt-network"}}, start : {{}}, skip : {{}},
   fail_fast : {FALSE}, dry_run : BOOLEAN, work : Single]
=============================================================================
