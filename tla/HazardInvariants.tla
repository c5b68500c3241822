------------------------- MODULE HazardInvariants -------------------------
(***************************************************************************)
(* The invariants that the theorems about the hazard pointers rest on,     *)
(* each inductive together with the ones before it: CallsInv (what a call  *)
(* under way has in hand), AccountsInv (where every block is) and ScansInv *)
(* (what a scan has still to read, and what it has marked).                *)
(***************************************************************************)
EXTENDS HazardProperties

NoHazards == [s \in Slots |-> NULL]

Scanning(t) == pc[t] \in {"scan", "sweep"}

-----------------------------------------------------------------------------
(* The calls.                                                              *)

\* A thread is on the list, and has pointers, once it is registered.
ThreadInv(t) ==
    /\ pc[t] \in {"init", "cas"} => t \notin registered
    /\ t \notin registered => pc[t] \in {"idle", "init", "cas"} /\ hp[t] = NoHazards
    /\ pc[t] = "scan" => iter[t] \in registered

\* A call has a value from its read to its write only, and a removal clears
\* the slots before it retires its block.
CallInv(t) ==
    /\ pc[t] = "peek" => Checks(request[t])
    /\ pc[t] \in {"copy", "reuse"} /\ value[t] # NULL => Checks(request[t])
    /\ pc[t] = "reuse" => value[t] # NULL
    /\ pc[t] \notin {"copy", "reuse", "store"} => value[t] = NULL
    /\ victim[t] # NULL => pc[t] \in {"clear", "free"}
    /\ pc[t] = "clear" /\ victim[t] # NULL => \A s \in Slots : s < i[t] => hp[t][s] = NULL
    /\ pc[t] = "free" => victim[t] # NULL /\ i[t] = 0
    /\ pc[t] = "free" \/ Scanning(t) => hp[t] = NoHazards

\* The list of threads is closed, and deleting is the end.
CallsInv ==
    /\ first \in registered \cup {NoThread}
    /\ first = NoThread => registered = {}
    /\ \A u \in registered : next[u] \in registered \cup {NoThread}
    /\ \A t \in Threads : ThreadInv(t) /\ CallInv(t)
    /\ deleted => \A t \in Threads : pc[t] = "idle"

-----------------------------------------------------------------------------
(* The blocks.                                                             *)

Sorted(L) == \A j, k \in Entries : j < k => L[j].data <= L[k].data

\* The list is full, sorted and being marked in a scan only.
ReleaseInv(t) ==
    /\ release_list_size[t] = Cardinality(Waiting(t))
    /\ \A k \in Entries : k \in Waiting(t) <=> release_list[t][k].data # NULL
    /\ ~Scanning(t) => \A k \in Entries : release_list[t][k].status # 2
    /\ Scanning(t) => Waiting(t) = Entries /\ Sorted(release_list[t])

\* Whatever holds a block holds it alone.
OnePlace ==
    /\ heap = Linked \cup Retired
    /\ Linked \cap Retired = {}
    /\ \A c, d \in Cells : cell[c] = cell[d] => c = d
    /\ \A t, u \in Threads : victim[t] = victim[u] /\ victim[t] # NULL => t = u
    /\ \A t, u \in Threads : \A k \in Waiting(t) :
         /\ victim[u] # release_list[t][k].data
         /\ \A j \in Waiting(u) :
              release_list[u][j].data = release_list[t][k].data => t = u /\ j = k

AccountsInv ==
    ~deleted => OnePlace /\ \A t \in Threads : ReleaseInv(t)

-----------------------------------------------------------------------------
(* The scans.                                                              *)

\* The place of each registered thread on the list, counted from its end.
Rank(r, u) == IF u = NoThread THEN 0 ELSE r[u]
Ranks ==
    {r \in [registered -> 1..Cardinality(registered)] :
       /\ Rank(r, first) = Cardinality(registered)
       /\ \A u \in registered : Rank(r, next[u]) = r[u] - 1
       /\ \A u, v \in registered : r[u] = r[v] => u = v}

\* The slots that the scan of t has still to read.
Ahead(r, t) ==
    {p \in registered \X Slots :
       /\ pc[t] = "scan"
       /\ r[p[1]] < r[iter[t]] \/ (p[1] = iter[t] /\ p[2] >= i[t])}

\* The pointer found stored already stays where it was found.
KnownInv(t) ==
    /\ pc[t] \in {"init", "cas", "peek", "copy"} =>
         (Moves(request[t]) /\ Checks(request[t]) => request[t].to # request[t].pos)
    /\ pc[t] = "copy" => Moves(request[t])
    /\ pc[t] \in {"copy", "reuse"} /\ value[t] # NULL =>
         hp[t][request[t].pos] = value[t]

\* A block that a thread guards and the scan of t has not marked, it will meet.
GuardInv(r, t) ==
    Scanning(t) =>
      \A k \in Entries, u \in Threads, s \in Slots :
        release_list[t][k].status = 1 /\ Guards(u)[s] = release_list[t][k].data =>
          <<u, s>> \in Ahead(r, t)

\* The threads registered form one list, and a scan of it meets what is guarded.
ScanInv(r, t) == KnownInv(t) /\ GuardInv(r, t)
ScansInv == \E r \in Ranks : deleted \/ \A t \in Threads : ScanInv(r, t)

HazardInv == CallsInv /\ AccountsInv /\ ScansInv
=============================================================================
