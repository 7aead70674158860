---------------------------- MODULE FirewallSets ----------------------------
(***************************************************************************)
(* The fixed block set on a firewall as the three backends of              *)
(* response/transports keep it: the nftables agent                         *)
(* (docker/enforcer/nft_enforcer.py) and its client, the alias of          *)
(* OPNsense, and the address group of VyOS.  The ownership ledger and the  *)
(* adapter (Blocklist) rely on the three calls of a backend.               *)
(*                                                                         *)
(* A firewall is its set of entries.  An entry is one address or the       *)
(* network that begins with it, and the second at which it lapses.  A call *)
(* at second 0 gives the set of its results, {} when it raises; `broken`   *)
(* says that the device fails every command.                               *)
(***************************************************************************)
EXTENDS Naturals, FiniteSets

\* Seconds; an entry without a timeout stays.
DEFAULT_LIFETIME == 3600
MAX_LIFETIME == 86400 + 600
BACKSTOP_GRACE_SECONDS == 300
Forever == 1000000

Entry(kind, address, until) == [kind |-> kind, address |-> address, until |-> until]
HasHost(entries, a) == \E e \in entries : e.kind = "host" /\ e.address = a
Without(entries, a) == {e \in entries : ~(e.kind = "host" /\ e.address = a)}
LeftAfter(entries, second) == {e \in entries : e.until > second}

\* nft and the devices: an entry that is there is not added again, nor is its
\* timeout changed.
Put(entries, a, until) == IF HasHost(entries, a) THEN entries ELSE entries \cup {Entry("host", a, until)}

\* _lifetime of the adapter: no lifetime is the empty set.
LifetimeOf(ttl) == IF ttl <= 0 THEN {} ELSE {ttl + BACKSTOP_GRACE_SECONDS}
-----------------------------------------------------------------------------
(* The nftables agent.                                                     *)

Reply(status, entries, present) == [status |-> status, entries |-> entries, present |-> present]

\* parse: special-use addresses are never blocked.
parse(a) == ~a.special

\* Mutant: the limit forgets the grace of the backstop.
SecondsPermittedDay(seconds) == 60 <= seconds /\ seconds <= 86400

SecondsPermitted(seconds) == 60 <= seconds /\ seconds <= MAX_LIFETIME

\* Mutant: an element that is not there cannot be removed.
NftDeleteStrict(fw, a) ==
  IF fw.broken \/ ~HasHost(fw.entries, a) THEN {} ELSE {Without(fw.entries, a)}

\* Enforcer.remove: nft's complaint that there is no such element is no error.
NftDelete(fw, a) == IF fw.broken THEN {} ELSE {Without(fw.entries, a)}

\* Handler.do_POST: 403 for an unknown client, 400 for what the agent refuses,
\* 502 when nft fails.
do_POST(fw, path, a, lifetime) ==
  LET seconds == IF lifetime = {} THEN DEFAULT_LIFETIME ELSE CHOOSE s \in lifetime : TRUE
      removed == NftDelete(fw, a)
  IN  CASE ~fw.permitted -> Reply(403, fw.entries, FALSE)
        [] OTHER ->
           IF ~parse(a) \/ (path = "add" /\ ~SecondsPermitted(seconds)) THEN Reply(400, fw.entries, FALSE)
           ELSE IF fw.broken \/ (path = "remove" /\ removed = {}) THEN Reply(502, fw.entries, FALSE)
           ELSE CASE path = "add" -> Reply(200, Put(fw.entries, a, seconds), FALSE)
                  [] path = "remove" -> Reply(200, CHOOSE e \in removed : TRUE, FALSE)
                  [] path = "contains" -> Reply(200, fw.entries, HasHost(fw.entries, a))

\* NftablesRawSet: everything but 200 raises.
Nft(fw, path, a, lifetime) == {r \in {do_POST(fw, path, a, lifetime)} : r.status = 200}
-----------------------------------------------------------------------------
(* OPNsense and VyOS; neither has a timeout.                               *)

Works(fw, result) == IF fw.broken THEN {} ELSE {result}

\* A network is listed by its first address and a length that is cut off.
OPNsenseContains(fw, a) == Works(fw, \E e \in fw.entries : e.address = a)
OPNsenseAdd(fw, a) == Works(fw, Put(fw.entries, a, Forever))

\* The answer "not_found" counts as removed.
OPNsenseRemove(fw, a) == Works(fw, Without(fw.entries, a))

VyosContains(fw, a) == Works(fw, HasHost(fw.entries, a))

\* An address group takes no IPv6 address.
VyosAdd(fw, a) == IF a.version = 6 THEN {} ELSE Works(fw, Put(fw.entries, a, Forever))

\* The answer "nothing to delete" counts as removed.
VyosRemove(fw, a) == Works(fw, Without(fw.entries, a))
-----------------------------------------------------------------------------
(* The three calls of RawSet, of the backend that build_adapters chose.    *)

SetContains(fw, a) ==
  CASE fw.backend = "nftables" -> {r.present : r \in Nft(fw, "contains", a, {})}
    [] fw.backend = "opnsense" -> OPNsenseContains(fw, a)
    [] fw.backend = "vyos" -> VyosContains(fw, a)

SetAdd(fw, a, lifetime) ==
  CASE fw.backend = "nftables" -> {r.entries : r \in Nft(fw, "add", a, lifetime)}
    [] fw.backend = "opnsense" -> OPNsenseAdd(fw, a)
    [] fw.backend = "vyos" -> VyosAdd(fw, a)

SetRemove(fw, a) ==
  CASE fw.backend = "nftables" -> {r.entries : r \in Nft(fw, "remove", a, {})}
    [] fw.backend = "opnsense" -> OPNsenseRemove(fw, a)
    [] fw.backend = "vyos" -> VyosRemove(fw, a)
=============================================================================
