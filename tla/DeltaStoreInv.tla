---------------------------- MODULE DeltaStoreInv ----------------------------
(* The inductive invariant behind IDFence and PatchFits: how the ids and the *)
(* documents of the entries of one journal hang together, with each other,   *)
(* with the id map in memory and on disk, and with what the backend holds.   *)
EXTENDS DeltaStore

\* Faults that leave every file whole and every entity in place.
SoftFaults == {"crash", "post", "forget"}

-----------------------------------------------------------------------------
(* A journal J, the ids M a next delta may follow, a cached file c and a     *)
(* backend record b                                                          *)

IsLast(x, S) == x \in S /\ \A y \in S : y.at <= x.at

Positions(J, w) ==
  \A x \in J : x.at <= w /\ \A y \in J : x.at = y.at => x = y

\* Ids never fall back behind a partial delta that is still in the journal.
NeverBack(J, M) ==
  \A x \in J : ~x.full =>
    /\ \A n \in M : x.id <= n + 1
    /\ \A y \in J : x.at < y.at => x.id <= y.id

\* Of two neighbours with consecutive ids the second starts where the first ends.
Links(J) ==
  \A x, y \in J :
    (/\ x.at < y.at /\ ~y.full /\ y.id = x.id + 1
     /\ \A z \in J : z.at <= x.at \/ y.at <= z.at) => y.base = x.target

\* The id map is not ahead of a journal of several entries.
NotAhead(J, M) ==
  \A x, y \in J : x.at < y.at /\ IsLast(y, J) => \A n \in M : n <= y.id

\* A delta numbered n + 1, if it follows the last one without a gap, starts where
\* that one ends.
NextLink(J, c, n) ==
  \A x \in J : IsLast(x, J) /\ c \in Content /\ n = x.id => x.target = c

\* The same for an empty journal and what the backend holds.
NextFits(J, c, M, b) ==
  J = {} /\ c \in Content /\ b.has /\ b.last \in M => b.inv = c

FirstFits(J, b) ==
  \A x \in J : IsFirst(x, J) /\ ~x.full /\ b.has /\ x.id = b.last + 1 => b.inv = x.base

-----------------------------------------------------------------------------
(* One plugin of one entity                                                  *)

\* The ids in use, in memory and on disk: a crash brings the latter back.
Mru(s) == {ids[s].mru, saved.ids[s].mru}
Cleared(s) == pend[s] = {} /\ cache[s] = NoFile
ReplacingAt(s) == pc = "replace" /\ s = Slot(cur)

\* The plugin was reaped in this round, the id map is not yet written.
Unsaved(s) ==
  /\ pc \in {"reap", "replace"} /\ s[2] = ent
  /\ ReplacingAt(s) \/ (dirty /\ s[1] \notin todo)

WholeFiles(s) ==
  /\ torn[s] = FALSE /\ src[s] # Torn /\ cache[s] # Torn
  /\ cache[s] # NoFile => src[s] # NoFile

Chain(s) ==
  /\ Positions(pend[s], wr[s])
  /\ NeverBack(pend[s], Mru(s))
  /\ Links(pend[s])
  /\ NotAhead(pend[s], Mru(s))
  /\ NextLink(pend[s], cache[s], saved.ids[s].mru)
  /\ NextFits(pend[s], cache[s], Mru(s), bk[s])
  /\ FirstFits(pend[s], bk[s])

Latest(s) ==
  /\ ReplacingAt(s) \/ NextLink(pend[s], cache[s], ids[s].mru)
  /\ ids[s].mru = saved.ids[s].mru \/ Cleared(s) \/ Unsaved(s)

Replacing ==
  pc = "replace" =>
    /\ cur \in todo /\ src[Slot(cur)] \in Content
    /\ \E x \in pend[Slot(cur)] :
         IsLast(x, pend[Slot(cur)]) /\ x.target = src[Slot(cur)] /\ x.id = ids[Slot(cur)].mru

-----------------------------------------------------------------------------
(* The request in flight, for a journal J with P still to be looked at, a    *)
(* hint h and a backend record b                                             *)

Acked(h, sent, x) ==
  /\ ~Clears(h, x.id)
  /\ h = NoHint => x.id <= sent
  /\ h # NoHint => sent = h.next - 1

\* Everything posted so far was stored, in the order of the journal.
Ok(J, P, h, b) ==
  \A x \in J : IsLast(x, J \ P) =>
    /\ h \in {NoHint, [reset |-> FALSE, next |-> x.id + 1, stored |-> x.id]}
    /\ b.has => b.last = x.id /\ b.inv = x.target

Deferred(J, h, b) ==
  /\ h.reset = FALSE /\ h.next >= 0 /\ h.stored = h.next - 1
  /\ \E x \in J : x.id = h.next
  /\ \A x \in J :
       (/\ b.has /\ ~x.full /\ x.id = h.next
        /\ \A y \in J : y.id = x.id => x.at <= y.at) => b.inv = x.base

Refused(h) == h.next >= 0 /\ (h.reset \/ h.next = 0)

Suffix(P, J) == P \subseteq J /\ \A x \in P, y \in J : x.at < y.at => y \in P

InFlight(p) ==
  /\ Suffix(posted[p], pend[Slot(p)])
  /\ unacked[p] \subseteq pend[Slot(p)]
  /\ p \in known =>
       \A x \in pend[Slot(p)] \ unacked[p] : Acked(hint[p], ids[Slot(p)].sent, x)
  /\ verdict[p] = "ok" => Ok(pend[Slot(p)], posted[p], hint[p], bk[Slot(p)])
  /\ verdict[p] = "deferred" =>
       posted[p] = {} /\ Deferred(pend[Slot(p)], hint[p], bk[Slot(p)])
  /\ verdict[p] = "refused" => posted[p] = {} /\ Refused(hint[p])

Request ==
  /\ pc = "post" => \A p \in block : unacked[p] = pend[Slot(p)] /\ InFlight(p)
  /\ pc = "update" =>
       \A p \in block : posted[p] = {} /\ (Cleared(Slot(p)) \/ InFlight(p))

-----------------------------------------------------------------------------
Settled == offline = {} /\ renamed = {} /\ pc # "remove"

\* What holds in every state as long as faults are soft; it implies IDFence.
ChainInv ==
  /\ Settled /\ Replacing /\ Request
  /\ \A s \in Slots : WholeFiles(s) /\ Chain(s) /\ Latest(s)
=============================================================================
