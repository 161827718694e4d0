---------------------------- MODULE PlatformProofs ----------------------------
(***************************************************************************)
(* Theorems about the parts that the agents of a cluster and their checks  *)
(* stand on: StatsdServer, ThreadPool and LeaderElector, for any number of *)
(* nodes, lists, threads, calls and faults.                                *)
(***************************************************************************)
EXTENDS LeaderElector, ThreadPool, StatsdServer, FiniteSetTheorems, SequenceTheorems, TLAPS

-----------------------------------------------------------------------------
(* StatsdServer                                                              *)

\* What a list has is numbered in the order in which it came.
HeapType ==
    /\ heap \in [Lists -> Seq(Seq(Nat))] /\ \A k \in Lists : Len(heap[k]) > 0
    /\ posted \in [Lists -> Seq(Nat)]
    /\ arrived.items \in Nat /\ DOMAIN arrived = {"datagrams", "items"}
    /\ arrived.datagrams \in Nat
    /\ cursor \in [at : Nat, ended : BOOLEAN] /\ flushing \in Lists
    /\ target \in [kind : Lists, list : Nat]
    /\ serverPc = "append" => target.list \in DOMAIN heap[target.kind]

\* Within a list and from one list to the next.
HeapInOrder ==
    \A k \in Lists : \A l \in DOMAIN heap[k] : \A i \in DOMAIN heap[k][l] :
        /\ heap[k][l][i] <= arrived.items
        /\ \A j \in DOMAIN heap[k][l] : i < j => heap[k][l][i] < heap[k][l][j]
        /\ \A m \in DOMAIN heap[k] : \A j \in DOMAIN heap[k][m] : l < m => heap[k][l][i] < heap[k][m][j]

\* The lists after the one the server is about to append to are empty.
NothingLater ==
    serverPc = "append" =>
        \A l \in DOMAIN heap[target.kind] : l > target.list => heap[target.kind][l] = <<>>

Flushes(k) == flushing = k /\ reporterPc \in {"count", "post"}
Taken(k) == Current(k) - 1

FlushKnown ==
    \A k \in Lists : Flushes(k) => Current(k) >= 2
                                /\ (reporterPc = "post" => cursor.at <= Len(TakenList(k)))
                                /\ (reporterPc = "count" => cursor.at = 0)

\* The lists before the one in the flush, and its beginning.
BehindCursor(k, l, i) ==
    l < Current(k) /\ (Flushes(k) /\ l = Taken(k) => reporterPc = "post" /\ i <= cursor.at)

PostedIsBehind ==
    \A k \in Lists : \A p \in DOMAIN posted[k] :
        \E l \in DOMAIN heap[k] : \E i \in DOMAIN heap[k][l] :
            heap[k][l][i] = posted[k][p] /\ BehindCursor(k, l, i)

PostedInOrder ==
    \A k \in Lists : \A i, j \in DOMAIN posted[k] : i < j => posted[k][i] < posted[k][j]

\* What is behind the cursor was posted, but for what came late and what a flush that
\* raised had taken.
ToCome(k, l, i) ==
    \/ l = Current(k)
    \/ l = Taken(k) /\ Flushes(k) /\ ~cursor.ended /\ (reporterPc = "post" => i > cursor.at)
BehindIsPosted ==
    \A k \in Lists : \A l \in DOMAIN heap[k] : \A i \in DOMAIN heap[k][l] :
        ToCome(k, l, i) \/ heap[k][l][i] \in AllOf(posted[k]) \union strays \union aborted

StatsdInv ==
    /\ HeapType /\ HeapInOrder /\ NothingLater /\ FlushKnown
    /\ PostedIsBehind /\ PostedInOrder /\ BehindIsPosted

-----------------------------------------------------------------------------
LEMMA HeapLists ==
    ASSUME HeapType
    PROVE  \A kk \in Lists : /\ heap[kk] \in Seq(Seq(Nat)) /\ Len(heap[kk]) \in Nat /\ DOMAIN heap[kk] = 1..Len(heap[kk])
                            /\ \A l \in DOMAIN heap[kk] : /\ heap[kk][l] \in Seq(Nat) /\ Len(heap[kk][l]) \in Nat
                                                         /\ DOMAIN heap[kk][l] = 1..Len(heap[kk][l])
<1> TAKE kk \in Lists
<1>1. PICK s \in Seq(Seq(Nat)) : s = heap[kk]
  BY DEF HeapType
<1>2. Len(s) \in Nat /\ DOMAIN s = 1..Len(s)
  OBVIOUS
<1>3. \A l \in DOMAIN s : s[l] \in Seq(Nat)
  BY <1>2
<1>4. \A t \in Seq(Nat) : Len(t) \in Nat /\ DOMAIN t = 1..Len(t)
  OBVIOUS
<1> QED BY <1>1, <1>2, <1>3, <1>4

LEMMA NewListType ==
    ASSUME NEW s \in Seq(Seq(Nat))
    PROVE  Append(s, <<>>) \in Seq(Seq(Nat))
<1>1. <<>> \in Seq(Nat)
  BY EmptySeq
<1> QED BY <1>1, AppendProperties

\* A post takes a part of a list after another.
LEMMA PartPosted ==
    ASSUME NEW t \in Seq(Nat), NEW old \in Seq(Nat), NEW at \in Nat, NEW end \in Nat, at <= end, end <= Len(t)
    PROVE  /\ old \o SubSeq(t, at + 1, end) \in Seq(Nat)
           /\ DOMAIN (old \o SubSeq(t, at + 1, end)) = 1..(Len(old) + (end - at))
           /\ \A p \in 1..Len(old) : (old \o SubSeq(t, at + 1, end))[p] = old[p]
           /\ \A i \in 1..(end - at) : (old \o SubSeq(t, at + 1, end))[Len(old) + i] = t[at + i]
           /\ \A i \in 1..(end - at) : /\ at + i \in DOMAIN t /\ at + i \in 1..end
                                       /\ Len(old) + i \in 1..(Len(old) + (end - at))
<1>1. PICK part : part = SubSeq(t, at + 1, end)
  OBVIOUS
<1>2. part \in Seq(Nat) /\ Len(part) = end - at /\ \A i \in 1..(end - at) : part[i] = t[at + i]
  <2>1. at + 1 \in Int /\ end \in Int /\ \A i \in at + 1 .. end : t[i] \in Nat
    OBVIOUS
  <2>2. /\ SubSeq(t, at + 1, end) \in Seq(Nat)
        /\ Len(SubSeq(t, at + 1, end)) = IF at + 1 <= end THEN end - (at + 1) + 1 ELSE 0
        /\ \A i \in 1 .. end - (at + 1) + 1 : SubSeq(t, at + 1, end)[i] = t[(at + 1) + i - 1]
    BY <2>1, SubSeqProperties
  <2>3. \A i \in 1..(end - at) : (at + 1) + i - 1 = at + i /\ i \in 1 .. end - (at + 1) + 1
    OBVIOUS
  <2>4. (IF at + 1 <= end THEN end - (at + 1) + 1 ELSE 0) = end - at
    OBVIOUS
  <2> QED BY <1>1, <2>2, <2>3, <2>4
<1>3. PICK new : new = old \o part
  OBVIOUS
<1>4. /\ new \in Seq(Nat) /\ Len(new) = Len(old) + Len(part)
      /\ \A i \in 1 .. Len(old) + Len(part) : new[i] = IF i <= Len(old) THEN old[i] ELSE part[i - Len(old)]
  BY <1>2, <1>3, ConcatProperties
<1>5. Len(old) \in Nat /\ Len(part) \in Nat /\ DOMAIN new = 1..(Len(old) + (end - at))
  BY <1>2, <1>4
<1>6. \A p \in 1..Len(old) : new[p] = old[p]
  BY SMTT(30), <1>4, <1>5
<1>7. \A i \in 1..(end - at) : new[Len(old) + i] = t[at + i]
  <2> TAKE i \in 1..(end - at)
  <2>1. /\ Len(old) + i \in 1 .. Len(old) + Len(part) /\ ~(Len(old) + i <= Len(old))
        /\ (Len(old) + i) - Len(old) = i
    BY <1>2, <1>5
  <2> QED BY <1>2, <1>4, <2>1
<1>8. \A i \in 1..(end - at) : /\ at + i \in DOMAIN t /\ at + i \in 1..end
                                /\ Len(old) + i \in 1..(Len(old) + (end - at))
  OBVIOUS
<1> QED BY <1>1, <1>3, <1>4, <1>5, <1>6, <1>7, <1>8

LEMMA StatsdInitially == StatsdInit => StatsdInv
<1> SUFFICES ASSUME StatsdInit PROVE StatsdInv
  OBVIOUS
<1> USE DEF StatsdInit
<1>1. HeapType
  BY DEF HeapType, Lists
<1>2. \A k \in Lists : heap[k] = <<<<>>>> /\ posted[k] = <<>>
  OBVIOUS
<1>3. \A k \in Lists : DOMAIN heap[k] = {1} /\ DOMAIN heap[k][1] = {} /\ Current(k) = 1 /\ DOMAIN posted[k] = {}
  BY <1>2 DEF Current
<1>4. HeapInOrder /\ NothingLater
  BY <1>3 DEF HeapInOrder, NothingLater
<1>5. FlushKnown /\ PostedIsBehind /\ PostedInOrder
  BY <1>3 DEF FlushKnown, Flushes, PostedIsBehind, PostedInOrder
<1>6. BehindIsPosted
  BY <1>3 DEF BehindIsPosted, ToCome
<1> QED BY <1>1, <1>4, <1>5, <1>6 DEF StatsdInv

\* The steps of the server but for an append.
LEMMA ServerMoves ==
    ASSUME StatsdInv, UNCHANGED <<heap, posted, cursor, flushing, reporterPc, strays, aborted>>,
           arrived'.items = arrived.items, DOMAIN arrived' = DOMAIN arrived, arrived'.datagrams \in Nat,
           \/ serverPc' # "append" /\ target' = target
           \/ serverPc' = "append" /\ \E k \in Lists : target' = [kind |-> k, list |-> Current(k)]
    PROVE  StatsdInv'
<1> USE DEF StatsdInv
<1>1. CASE serverPc' # "append" /\ target' = target
  <2>1. HeapType' /\ NothingLater'
    BY <1>1 DEF HeapType, NothingLater
  <2> QED BY <2>1 DEF HeapInOrder, FlushKnown, Flushes, Current, TakenList, PostedIsBehind, PostedInOrder,
             BehindIsPosted, BehindCursor, Taken, ToCome
<1>2. CASE serverPc' = "append" /\ \E k \in Lists : target' = [kind |-> k, list |-> Current(k)]
  <2>1. PICK k \in Lists : target' = [kind |-> k, list |-> Current(k)]
    BY <1>2
  <2>2. Current(k) \in Nat /\ DOMAIN heap[k] = 1..Current(k) /\ Current(k) > 0
    BY DEF HeapType, Current
  <2>3. target'.kind = k /\ target'.list = Current(k) /\ target' \in [kind : Lists, list : Nat]
    BY <2>1, <2>2
  <2>4. HeapType'
    BY SMTT(30), <2>2, <2>3 DEF HeapType
  <2>5. NothingLater'
    BY <2>2, <2>3 DEF NothingLater
  <2> QED BY <2>4, <2>5 DEF HeapInOrder, FlushKnown, Flushes, Current, TakenList, PostedIsBehind, PostedInOrder,
             BehindIsPosted, BehindCursor, Taken, ToCome
<1> QED BY <1>1, <1>2

\* An append, to the current list or to one that was taken meanwhile.
LEMMA AppendKeeps ==
    ASSUME StatsdInv, Append1
    PROVE  StatsdInv'
<1> USE DEF StatsdInv
<1>1. PICK k \in Lists, tl \in Nat, item \in Nat :
         k = target.kind /\ tl = target.list /\ item = arrived.items + 1 /\ tl \in DOMAIN heap[k]
  BY SMTT(30) DEF HeapType, Append1
<1>2. \A kk \in Lists : /\ heap[kk] \in Seq(Seq(Nat)) /\ Len(heap[kk]) \in Nat /\ DOMAIN heap[kk] = 1..Len(heap[kk])
                        /\ \A l \in DOMAIN heap[kk] : /\ heap[kk][l] \in Seq(Nat) /\ Len(heap[kk][l]) \in Nat
                                                     /\ DOMAIN heap[kk][l] = 1..Len(heap[kk][l])
  BY HeapLists DEF HeapType
<1>3. heap' = [heap EXCEPT ![k] = [heap[k] EXCEPT ![tl] = Append(heap[k][tl], item)]]
  BY <1>1, Zenon DEF Append1
<1>4. PICK h : h = [heap[k] EXCEPT ![tl] = Append(heap[k][tl], item)]
  OBVIOUS
<1>5. /\ h \in Seq(Seq(Nat)) /\ Len(h) = Len(heap[k]) /\ DOMAIN h = DOMAIN heap[k]
      /\ h[tl] = Append(heap[k][tl], item) /\ \A l \in DOMAIN heap[k] \ {tl} : h[l] = heap[k][l]
  <2>1. Append(heap[k][tl], item) \in Seq(Nat)
    BY <1>1, <1>2
  <2>2. heap[k] \in Seq(Seq(Nat)) /\ tl \in 1..Len(heap[k]) /\ DOMAIN heap[k] = 1..Len(heap[k])
    BY <1>1, <1>2
  <2> DEFINE q == heap[k]
             x == Append(heap[k][tl], item)
             S == Seq(Nat)
  <2>3. q \in Seq(S) /\ x \in S /\ tl \in 1..Len(q) /\ DOMAIN q = 1..Len(q) /\ h = [q EXCEPT ![tl] = x]
    BY <1>4, <2>1, <2>2
  <2> HIDE DEF q, x, S
  <2>4. h \in Seq(S) /\ Len(h) = Len(q) /\ DOMAIN h = DOMAIN q
    BY <2>3
  <2>5. h[tl] = x /\ \A l \in DOMAIN q \ {tl} : h[l] = q[l]
    BY <2>3
  <2> QED BY <2>4, <2>5 DEF q, x, S
<1>6. /\ heap' \in [Lists -> Seq(Seq(Nat))] /\ heap'[k] = h
      /\ \A kk \in Lists : kk # k => heap'[kk] = heap[kk]
  BY <1>3, <1>4, <1>5 DEF HeapType
<1>7. \A kk \in Lists : Len(heap'[kk]) = Len(heap[kk]) /\ DOMAIN heap'[kk] = DOMAIN heap[kk]
  BY <1>5, <1>6
\* The items of before are where they were, and there is one more.
<1>8. \A kk \in Lists : \A l \in DOMAIN heap[kk] :
         \/ heap'[kk][l] = heap[kk][l]
         \/ kk = k /\ l = tl /\ heap'[kk][l] = Append(heap[kk][l], item)
  BY <1>5, <1>6
<1>9. \A kk \in Lists : \A l \in DOMAIN heap[kk] :
         /\ Len(heap[kk][l]) <= Len(heap'[kk][l])
         /\ DOMAIN heap[kk][l] \subseteq DOMAIN heap'[kk][l]
         /\ \A i \in DOMAIN heap[kk][l] : heap'[kk][l][i] = heap[kk][l][i]
         /\ \A i \in DOMAIN heap'[kk][l] \ DOMAIN heap[kk][l] :
                kk = k /\ l = tl /\ heap'[kk][l][i] = item /\ i = Len(heap[kk][l]) + 1
  <2> TAKE kk \in Lists
  <2> TAKE l \in DOMAIN heap[kk]
  <2>1. PICK s \in Seq(Nat) : s = heap[kk][l]
    BY <1>2
  <2>2. CASE heap'[kk][l] = s
    BY <2>1, <2>2
  <2>3. CASE kk = k /\ l = tl /\ heap'[kk][l] = Append(s, item)
    <3>1. Len(heap'[kk][l]) = Len(s) + 1 /\ DOMAIN heap'[kk][l] = 1..Len(s) + 1 /\ DOMAIN s = 1..Len(s) /\ Len(s) \in Nat
      BY <1>1, <2>3
    <3>2. \A i \in 1..Len(s) : heap'[kk][l][i] = s[i]
      BY <1>1, <2>3
    <3>3. heap'[kk][l][Len(s) + 1] = item
      BY <1>1, <2>3
    <3> QED BY <2>1, <2>3, <3>1, <3>2, <3>3
  <2> QED BY <1>8, <2>1, <2>2, <2>3
<1>10. /\ arrived'.items = item /\ arrived'.datagrams \in Nat /\ DOMAIN arrived' = {"datagrams", "items"}
       /\ serverPc = "append" /\ serverPc' = "packets" /\ target' = target
       /\ UNCHANGED <<reporterPc, flushing, cursor, posted, aborted>>
       /\ strays' = IF tl = Current(k) THEN strays ELSE strays \union {item}
  BY <1>1 DEF Append1, HeapType, reporterVars
<1>11. HeapType'
  BY <1>6, <1>7, <1>10 DEF HeapType
<1>12. HeapInOrder'
  <2> SUFFICES ASSUME NEW kk \in Lists, NEW l \in DOMAIN heap[kk], NEW i \in DOMAIN heap'[kk][l]
               PROVE  /\ heap'[kk][l][i] <= item
                      /\ \A j \in DOMAIN heap'[kk][l] : i < j => heap'[kk][l][i] < heap'[kk][l][j]
                      /\ \A m \in DOMAIN heap[kk] : \A j \in DOMAIN heap'[kk][m] : l < m => heap'[kk][l][i] < heap'[kk][m][j]
    BY <1>7, <1>10 DEF HeapInOrder
  <2>1. arrived.items \in Nat /\ arrived.items < item
    BY <1>1 DEF HeapType
  <2>2. \A ll \in DOMAIN heap[kk] : \A j \in DOMAIN heap[kk][ll] : heap[kk][ll][j] \in Nat /\ heap[kk][ll][j] < item
    BY SMTT(30), <1>2, <2>1 DEF HeapInOrder
  <2>3. CASE i \in DOMAIN heap[kk][l]
    <3>1. heap'[kk][l][i] = heap[kk][l][i] /\ heap'[kk][l][i] < item /\ heap[kk][l][i] \in Nat
      BY <1>9, <2>2, <2>3
    <3>2. ASSUME NEW j \in DOMAIN heap'[kk][l], i < j PROVE heap'[kk][l][i] < heap'[kk][l][j]
      <4>1. CASE j \in DOMAIN heap[kk][l]
        BY <1>9, <2>3, <3>1, <3>2, <4>1 DEF HeapInOrder
      <4>2. CASE j \notin DOMAIN heap[kk][l]
        BY <1>9, <3>1, <4>2
      <4> QED BY <4>1, <4>2
    <3>3. ASSUME NEW m \in DOMAIN heap[kk], NEW j \in DOMAIN heap'[kk][m], l < m PROVE heap'[kk][l][i] < heap'[kk][m][j]
      <4>1. CASE j \in DOMAIN heap[kk][m]
        BY <1>9, <2>3, <3>1, <3>3, <4>1 DEF HeapInOrder
      <4>2. CASE j \notin DOMAIN heap[kk][m]
        BY <1>9, <3>1, <4>2
      <4> QED BY <4>1, <4>2
    <3>4. heap'[kk][l][i] <= item
      BY <1>1, <3>1
    <3> QED BY <3>2, <3>3, <3>4
  <2>4. CASE i \notin DOMAIN heap[kk][l]
    <3>1. kk = k /\ l = tl /\ heap'[kk][l][i] = item /\ i = Len(heap[kk][l]) + 1
      BY <1>9, <2>4
    <3>2. ASSUME NEW j \in DOMAIN heap'[kk][l], i < j PROVE FALSE
      <4>1. j \notin DOMAIN heap[kk][l]
        BY <1>2, <3>1, <3>2
      <4> QED BY <1>2, <1>9, <3>1, <3>2, <4>1
    <3>3. ASSUME NEW m \in DOMAIN heap[kk], NEW j \in DOMAIN heap'[kk][m], l < m PROVE FALSE
      <4>1. heap[kk][m] = <<>>
        BY <1>1, <1>10, <3>1, <3>3 DEF NothingLater
      <4>2. m # tl
        <5>1. m \in Nat
          BY <1>2
        <5> QED BY <3>1, <3>3, <5>1
      <4>3. heap'[kk][m] = heap[kk][m]
        BY <1>8, <4>2
      <4> QED BY <3>3, <4>1, <4>3
    <3>4. heap'[kk][l][i] <= item
      BY <1>1, <3>1
    <3> QED BY <3>2, <3>3, <3>4
  <2> QED BY <2>3, <2>4
<1>13. NothingLater'
  BY <1>10 DEF NothingLater
<1>14. \A kk \in Lists : Current(kk)' = Current(kk) /\ Flushes(kk)' = Flushes(kk) /\ Taken(kk)' = Taken(kk)
  BY <1>7, <1>10 DEF Current, Flushes, Taken
<1>15. FlushKnown'
  <2> SUFFICES ASSUME NEW kk \in Lists, Flushes(kk)
               PROVE  Current(kk) >= 2 /\ (reporterPc = "post" => cursor.at <= Len(TakenList(kk))')
                                       /\ (reporterPc = "count" => cursor.at = 0)
    BY <1>10, <1>14 DEF FlushKnown
  <2>1. Current(kk) >= 2 /\ Current(kk) - 1 \in DOMAIN heap[kk]
    BY <1>2 DEF FlushKnown, Current
  <2>2. TakenList(kk)' = heap'[kk][Current(kk) - 1] /\ TakenList(kk) = heap[kk][Current(kk) - 1]
    BY <1>14 DEF TakenList
  <2>3. Len(TakenList(kk)) <= Len(TakenList(kk)') /\ Len(TakenList(kk)) \in Nat
    BY <1>2, <1>9, <2>1, <2>2
  <2>4. Len(TakenList(kk)') \in Nat
    BY <1>6, <1>7, <2>1, <2>2
  <2> QED BY <2>1, <2>3, <2>4 DEF FlushKnown, HeapType
<1>16. PostedIsBehind'
  <2> SUFFICES ASSUME NEW kk \in Lists, NEW p \in DOMAIN posted[kk]
               PROVE  \E l \in DOMAIN heap'[kk] : \E i \in DOMAIN heap'[kk][l] :
                          heap'[kk][l][i] = posted[kk][p] /\ BehindCursor(kk, l, i)'
    BY <1>10 DEF PostedIsBehind
  <2>1. PICK l \in DOMAIN heap[kk] : \E i \in DOMAIN heap[kk][l] : heap[kk][l][i] = posted[kk][p] /\ BehindCursor(kk, l, i)
    BY DEF PostedIsBehind
  <2>2. PICK i \in DOMAIN heap[kk][l] : heap[kk][l][i] = posted[kk][p] /\ BehindCursor(kk, l, i)
    BY <2>1
  <2>3. BehindCursor(kk, l, i)'
    BY <1>10, <1>14, <2>2 DEF BehindCursor
  <2> QED BY <1>7, <1>9, <2>2, <2>3
<1>17. PostedInOrder'
  BY <1>10 DEF PostedInOrder
<1>18. BehindIsPosted'
  <2> SUFFICES ASSUME NEW kk \in Lists, NEW l \in DOMAIN heap[kk], NEW i \in DOMAIN heap'[kk][l]
               PROVE  ToCome(kk, l, i)' \/ heap'[kk][l][i] \in AllOf(posted[kk]) \union strays' \union aborted
    BY <1>7, <1>10 DEF BehindIsPosted, AllOf
  <2>1. ToCome(kk, l, i)' = ToCome(kk, l, i)
    BY <1>10, <1>14 DEF ToCome
  <2>2. CASE i \in DOMAIN heap[kk][l]
    BY <1>9, <1>10, <2>1, <2>2 DEF BehindIsPosted
  <2>3. CASE i \notin DOMAIN heap[kk][l]
    <3>1. kk = k /\ l = tl /\ heap'[kk][l][i] = item
      BY <1>9, <2>3
    <3>2. CASE tl = Current(k)
      BY <2>1, <3>1, <3>2 DEF ToCome
    <3>3. CASE tl # Current(k)
      BY <1>10, <3>1, <3>3
    <3> QED BY <3>2, <3>3
  <2> QED BY <2>2, <2>3
<1> QED BY <1>11, <1>12, <1>13, <1>15, <1>16, <1>17, <1>18

\* The steps of the reporter by which it has nothing more of a list to post.
LEMMA FlushOver ==
    ASSUME StatsdInv, UNCHANGED <<heap, posted, cursor, serverVars>>, reporterPc' \notin {"count", "post"},
           flushing' \in Lists, aborted \subseteq aborted',
           \A k \in Lists : Flushes(k) =>
               \A i \in DOMAIN TakenList(k) :
                   ToCome(k, Taken(k), i) => TakenList(k)[i] \in aborted'
    PROVE  StatsdInv'
<1> USE DEF StatsdInv
<1>1. UNCHANGED <<heap, posted, cursor, serverPc, target, arrived, strays>>
  BY DEF serverVars
<1>2. HeapType' /\ HeapInOrder' /\ NothingLater' /\ PostedInOrder'
  BY SMTT(30), <1>1 DEF HeapType, HeapInOrder, NothingLater, PostedInOrder
<1>3. \A k \in Lists : ~Flushes(k)' /\ Current(k)' = Current(k)
  BY <1>1 DEF Flushes, Current
<1>4. FlushKnown'
  BY <1>3 DEF FlushKnown
<1>5. PostedIsBehind'
  BY <1>1, <1>3 DEF PostedIsBehind, BehindCursor
<1>6. BehindIsPosted'
  <2> SUFFICES ASSUME NEW k \in Lists, NEW l \in DOMAIN heap[k], NEW i \in DOMAIN heap[k][l]
               PROVE  l = Current(k) \/ heap[k][l][i] \in AllOf(posted[k]) \union strays \union aborted'
    BY <1>1, <1>3 DEF BehindIsPosted, ToCome, AllOf
  <2>1. CASE ToCome(k, l, i)
    BY <2>1 DEF ToCome, TakenList, Taken
  <2>2. CASE ~ToCome(k, l, i)
    BY <2>2 DEF BehindIsPosted
  <2> QED BY <2>1, <2>2
<1> QED BY <1>2, <1>4, <1>5, <1>6

LEMMA TakeKeeps ==
    ASSUME StatsdInv, Take
    PROVE  StatsdInv'
<1> USE DEF StatsdInv
<1>1. PICK k \in Lists : k = flushing
  BY DEF HeapType
<1>2. PICK s \in Seq(Seq(Nat)), n \in Nat : s = heap[k] /\ n = Len(s) /\ n > 0
  BY DEF HeapType
<1>3. heap' = [heap EXCEPT ![k] = Append(s, <<>>)]
  BY <1>1, <1>2 DEF Take, Swap, NewList
<1>4. PICK h \in Seq(Seq(Nat)) : h = Append(s, <<>>)
  BY NewListType
<1>5. Len(h) = n + 1 /\ DOMAIN h = 1..(n + 1) /\ DOMAIN s = 1..n /\ h[n + 1] = <<>> /\ \A l \in 1..n : h[l] = s[l]
  BY <1>2, <1>4
<1>6. heap' \in [Lists -> Seq(Seq(Nat))] /\ heap'[k] = h /\ \A kk \in Lists : kk # k => heap'[kk] = heap[kk]
  BY <1>3, <1>4 DEF HeapType
<1>7. /\ UNCHANGED <<posted, arrived, serverPc, target, flushing, strays, aborted>>
      /\ reporterPc = "take" /\ reporterPc' = "count" /\ cursor' = [at |-> 0, ended |-> FALSE]
  BY DEF Take, serverVars
<1>8. \A kk \in Lists : ~Flushes(kk) /\ (Flushes(kk)' <=> kk = k)
  BY <1>1, <1>7 DEF Flushes
<1>9. Current(k) = n /\ Current(k)' = n + 1 /\ \A kk \in Lists : kk # k => Current(kk)' = Current(kk)
  BY <1>2, <1>5, <1>6 DEF Current
\* The items are where they were.
<1>10. \A kk \in Lists : DOMAIN heap[kk] \subseteq DOMAIN heap'[kk] /\ \A l \in DOMAIN heap[kk] : heap'[kk][l] = heap[kk][l]
  <2> TAKE kk \in Lists
  <2>1. CASE kk = k
    <3>1. heap[kk] = s /\ heap'[kk] = h
      BY <1>2, <1>6, <2>1
    <3> QED BY <1>5, <2>1, <3>1
  <2>2. CASE kk # k
    BY <1>6, <2>2
  <2> QED BY <2>1, <2>2
<1>11. \A kk \in Lists : \A l \in DOMAIN heap'[kk] : l \in DOMAIN heap[kk] \/ (kk = k /\ l = n + 1 /\ heap'[kk][l] = <<>>)
  <2> TAKE kk \in Lists
  <2>1. CASE kk = k
    <3>1. heap[kk] = s /\ heap'[kk] = h
      BY <1>2, <1>6, <2>1
    <3> QED BY <1>5, <2>1, <3>1
  <2>2. CASE kk # k
    BY <1>6, <2>2
  <2> QED BY <2>1, <2>2
<1>12. HeapType'
  <2>1. \A kk \in Lists : Len(heap'[kk]) > 0
    BY SMTT(30), <1>5, <1>6 DEF HeapType
  <2>2. cursor' \in [at : Nat, ended : BOOLEAN]
    BY <1>7
  <2> QED BY <1>6, <1>7, <1>10, <2>1, <2>2 DEF HeapType
<1>13. HeapInOrder'
  <2> SUFFICES ASSUME NEW kk \in Lists, NEW l \in DOMAIN heap'[kk], NEW i \in DOMAIN heap'[kk][l]
               PROVE  /\ heap'[kk][l][i] <= arrived.items
                      /\ \A j \in DOMAIN heap'[kk][l] : i < j => heap'[kk][l][i] < heap'[kk][l][j]
                      /\ \A m \in DOMAIN heap'[kk] : \A j \in DOMAIN heap'[kk][m] : l < m => heap'[kk][l][i] < heap'[kk][m][j]
    BY <1>7 DEF HeapInOrder
  <2>1. l \in DOMAIN heap[kk]
    BY <1>11
  <2>2. \A m \in DOMAIN heap'[kk] : \A j \in DOMAIN heap'[kk][m] : m \in DOMAIN heap[kk]
    BY <1>11
  <2> QED BY <1>10, <2>1, <2>2 DEF HeapInOrder
<1>14. NothingLater'
  <2> SUFFICES ASSUME serverPc = "append", NEW l \in DOMAIN heap'[target.kind], l > target.list
               PROVE  heap'[target.kind][l] = <<>>
    BY <1>7 DEF NothingLater
  <2>1. target.kind \in Lists
    BY DEF HeapType
  <2> QED BY <1>10, <1>11, <2>1 DEF NothingLater
<1>15. FlushKnown'
  BY <1>2, <1>7, <1>8, <1>9 DEF FlushKnown
<1>16. PostedIsBehind'
  <2> SUFFICES ASSUME NEW kk \in Lists, NEW p \in DOMAIN posted[kk]
               PROVE  \E l \in DOMAIN heap'[kk] : \E i \in DOMAIN heap'[kk][l] :
                          heap'[kk][l][i] = posted[kk][p] /\ BehindCursor(kk, l, i)'
    BY <1>7 DEF PostedIsBehind
  <2>1. PICK l \in DOMAIN heap[kk] : \E i \in DOMAIN heap[kk][l] : heap[kk][l][i] = posted[kk][p] /\ BehindCursor(kk, l, i)
    BY DEF PostedIsBehind
  <2>2. PICK i \in DOMAIN heap[kk][l] : heap[kk][l][i] = posted[kk][p] /\ BehindCursor(kk, l, i)
    BY <2>1
  <2>3. l \in Nat /\ l < Current(kk)
    BY <2>2, HeapLists DEF BehindCursor
  <2>4. BehindCursor(kk, l, i)'
    <3>1. CASE kk = k
      <4>1. l < n /\ Current(kk)' = n + 1 /\ Taken(kk)' = n
        BY <1>9, <2>3, <3>1 DEF Taken
      <4> QED BY <2>3, <4>1 DEF BehindCursor
    <3>2. CASE kk # k
      BY <1>8, <1>9, <2>3, <3>2 DEF BehindCursor
    <3> QED BY <3>1, <3>2
  <2> QED BY <1>10, <2>2, <2>4
<1>17. PostedInOrder'
  BY <1>7 DEF PostedInOrder
<1>18. BehindIsPosted'
  <2> SUFFICES ASSUME NEW kk \in Lists, NEW l \in DOMAIN heap'[kk], NEW i \in DOMAIN heap'[kk][l]
               PROVE  ToCome(kk, l, i)' \/ heap'[kk][l][i] \in AllOf(posted[kk]) \union strays \union aborted
    BY <1>7 DEF BehindIsPosted, AllOf
  <2>1. l \in DOMAIN heap[kk] /\ heap'[kk][l] = heap[kk][l]
    BY <1>10, <1>11
  <2>2. ToCome(kk, l, i) => l = Current(kk)
    BY <1>8 DEF ToCome
  <2>3. CASE l = Current(kk)
    <3>1. CASE kk = k
      <4>1. l = n /\ Taken(kk)' = n
        BY <1>9, <2>3, <3>1 DEF Taken
      <4>2. Flushes(kk)' /\ cursor'.ended = FALSE
        BY <1>7, <1>8, <3>1
      <4> QED BY <1>7, <4>1, <4>2 DEF ToCome
    <3>2. CASE kk # k
      BY <1>9, <2>3, <3>2 DEF ToCome
    <3> QED BY <3>1, <3>2
  <2>4. CASE l # Current(kk)
    BY <2>1, <2>2, <2>4 DEF BehindIsPosted
  <2> QED BY <2>3, <2>4
<1> QED BY <1>12, <1>13, <1>14, <1>15, <1>16, <1>17, <1>18

LEMMA AfterKindIs == AfterKind => reporterPc' \in {"take", "ended", "wait"} /\ flushing' \in {flushing, "check"}
  BY DEF AfterKind

LEMMA CountKeeps ==
    ASSUME StatsdInv, Count
    PROVE  StatsdInv'
<1> USE DEF StatsdInv
<1>1. UNCHANGED <<heap, posted, cursor, serverVars, aborted>> /\ reporterPc = "count"
  BY DEF Count
<1>2. CASE TakenList(flushing) = <<>>
  <2>1. AfterKind
    BY <1>2 DEF Count
  <2>2. reporterPc' \notin {"count", "post"} /\ flushing' \in Lists
    BY <2>1, AfterKindIs DEF HeapType, Lists
  <2>3. \A k \in Lists : Flushes(k) => DOMAIN TakenList(k) = {}
    BY <1>2 DEF Flushes
  <2> QED BY <1>1, <2>2, <2>3, FlushOver
<1>3. CASE TakenList(flushing) # <<>>
  <2>1. flushing' = flushing /\ reporterPc' = "post"
    BY <1>3 DEF Count
  <2>2. UNCHANGED <<serverPc, target, arrived, strays>>
    BY <1>1 DEF serverVars
  <2>3. HeapType' /\ HeapInOrder' /\ NothingLater' /\ PostedInOrder'
    BY <1>1, <2>1, <2>2 DEF HeapType, HeapInOrder, NothingLater, PostedInOrder
  <2>4. \A k \in Lists : Flushes(k)' = Flushes(k) /\ Current(k)' = Current(k) /\ Taken(k)' = Taken(k) /\ TakenList(k)' = TakenList(k)
    BY <1>1, <2>1 DEF Flushes, Current, Taken, TakenList
  <2>5. FlushKnown'
    <3> SUFFICES ASSUME NEW k \in Lists, Flushes(k)
                 PROVE  Current(k) >= 2 /\ cursor.at <= Len(TakenList(k))
      BY <1>1, <2>1, <2>4 DEF FlushKnown
    <3>1. Current(k) >= 2 /\ cursor.at = 0
      BY <1>1 DEF FlushKnown
    <3>2. Current(k) - 1 \in DOMAIN heap[k]
      BY <3>1, HeapLists DEF Current
    <3>3. Len(TakenList(k)) \in Nat
      BY <3>2, HeapLists DEF TakenList
    <3> QED BY <3>1, <3>3
  <2>6. PostedIsBehind'
    <3>1. \A k \in Lists : \A l \in DOMAIN heap[k] : \A i \in DOMAIN heap[k][l] : BehindCursor(k, l, i) => BehindCursor(k, l, i)'
      BY <1>1, <2>1, <2>4 DEF BehindCursor
    <3> QED BY <1>1, <3>1 DEF PostedIsBehind
  <2>7. BehindIsPosted'
    <3> SUFFICES ASSUME NEW k \in Lists, NEW l \in DOMAIN heap[k], NEW i \in DOMAIN heap[k][l], ToCome(k, l, i)
                 PROVE  ToCome(k, l, i)'
      BY <1>1, <2>2 DEF BehindIsPosted, AllOf
    <3>1. Flushes(k) => i > cursor.at
      BY <1>1, HeapLists DEF FlushKnown
    <3> QED BY <1>1, <2>4, <3>1 DEF ToCome
  <2> QED BY <2>3, <2>5, <2>6, <2>7
<1> QED BY <1>2, <1>3

LEMMA PostKeeps ==
    ASSUME StatsdInv, Post
    PROVE  StatsdInv'
<1> USE DEF StatsdInv
<1>1. PICK k \in Lists : k = flushing
  BY DEF HeapType
<1>2. Flushes(k) /\ \A kk \in Lists : kk # k => ~Flushes(kk)
  BY <1>1 DEF Flushes, Post
<1>3. PICK t \in Seq(Nat) : t = TakenList(k) /\ cursor.at <= Len(t) /\ Taken(k) \in DOMAIN heap[k] /\ t = heap[k][Taken(k)]
  <2>1. Current(k) >= 2
    BY <1>2 DEF FlushKnown
  <2>2. Taken(k) \in DOMAIN heap[k] /\ TakenList(k) = heap[k][Taken(k)]
    BY <2>1, HeapLists DEF Taken, Current, TakenList
  <2> QED BY <1>2, <2>2, HeapLists DEF FlushKnown, Post
<1>4. PICK at \in Nat, n \in Nat, end \in Nat : at = cursor.at /\ n = Len(t) /\ end = ChunkEnd /\ at <= n
  <2>1. ChunkEnd \in Nat
    BY SMTT(30), <1>1, <1>3, StatsdAssumption DEF ChunkEnd, HeapType
  <2> QED BY <1>3, <2>1 DEF HeapType
<1>5. at <= end /\ end <= n /\ (Exhausted => end = n)
  <2>0. /\ Exhausted <=> k = "check" \/ at + ChunkSize > n
        /\ end = IF Exhausted THEN n ELSE at + ChunkSize
    BY <1>1, <1>3, <1>4 DEF ChunkEnd, Exhausted
  <2> HIDE DEF Exhausted
  <2>1. ChunkSize \in Nat
    BY StatsdAssumption
  <2>2. CASE Exhausted
    BY <1>4, <2>0, <2>2
  <2>3. CASE ~Exhausted
    BY <1>4, <2>0, <2>1, <2>3
  <2> QED BY <2>2, <2>3
<1>6. PICK old \in Seq(Nat) : old = posted[k]
  BY DEF HeapType
<1>7. PICK new \in Seq(Nat) :
         /\ new = old \o SubSeq(t, at + 1, end)
         /\ DOMAIN new = 1..(Len(old) + (end - at))
         /\ \A p \in 1..Len(old) : new[p] = old[p]
         /\ \A i \in 1..(end - at) : new[Len(old) + i] = t[at + i]
         /\ \A i \in 1..(end - at) : /\ at + i \in DOMAIN t /\ at + i \in 1..end
                                     /\ Len(old) + i \in 1..(Len(old) + (end - at))
  <2>1. end <= Len(t) /\ at <= end
    BY <1>4, <1>5
  <2>2. old \o SubSeq(t, at + 1, end) \in Seq(Nat)
    BY <2>1, PartPosted
  <2>3. PICK new \in Seq(Nat) : new = old \o SubSeq(t, at + 1, end)
    BY <2>2
  <2>4. /\ DOMAIN new = 1..(Len(old) + (end - at))
        /\ \A p \in 1..Len(old) : new[p] = old[p]
        /\ \A i \in 1..(end - at) : new[Len(old) + i] = t[at + i]
        /\ \A i \in 1..(end - at) : /\ at + i \in DOMAIN t /\ at + i \in 1..end
                                    /\ Len(old) + i \in 1..(Len(old) + (end - at))
    BY <2>1, <2>3, PartPosted
  <2> QED BY <2>3, <2>4
<1>8. posted' = [posted EXCEPT ![k] = new] /\ DOMAIN old = 1..Len(old) /\ Len(old) \in Nat
  BY <1>1, <1>3, <1>4, <1>6, <1>7 DEF Post
<1>9. posted' \in [Lists -> Seq(Nat)] /\ posted'[k] = new /\ \A kk \in Lists : kk # k => posted'[kk] = posted[kk]
  BY <1>8 DEF HeapType
<1>10. /\ UNCHANGED <<heap, reporterPc, flushing, aborted, serverPc, target, arrived, strays>> /\ reporterPc = "post"
       /\ cursor' = [at |-> end, ended |-> Exhausted] /\ cursor.ended = FALSE
  BY <1>4 DEF Post, serverVars, HeapType
<1>11. HeapType' /\ cursor'.at = end /\ (cursor'.ended = TRUE => end = n)
  <2>1. Exhausted \in BOOLEAN
    BY DEF Exhausted
  <2> QED BY <1>5, <1>9, <1>10, <2>1 DEF HeapType
<1>12. HeapInOrder' /\ NothingLater'
  BY <1>10 DEF HeapInOrder, NothingLater
<1>13. \A kk \in Lists : Flushes(kk)' = Flushes(kk) /\ Current(kk)' = Current(kk) /\ Taken(kk)' = Taken(kk) /\ TakenList(kk)' = TakenList(kk)
  BY <1>10 DEF Flushes, Current, Taken, TakenList
<1>14. FlushKnown'
  BY <1>2, <1>3, <1>4, <1>5, <1>10, <1>11, <1>13 DEF FlushKnown
<1>15. \A kk \in Lists : \A l \in DOMAIN heap[kk] : \A i \in DOMAIN heap[kk][l] :
           BehindCursor(kk, l, i) => BehindCursor(kk, l, i)'
  BY SMTT(30), <1>4, <1>5, <1>10, <1>11, <1>13, HeapLists DEF BehindCursor
<1>16. \A i \in 1..end : BehindCursor(k, Taken(k), i)'
  <2>1. Taken(k) < Current(k)
    BY HeapLists DEF Taken, Current
  <2> QED BY <1>5, <1>10, <1>11, <1>13, <2>1 DEF BehindCursor
<1>17. PostedIsBehind'
  <2> SUFFICES ASSUME NEW kk \in Lists, NEW p \in DOMAIN posted'[kk]
               PROVE  \E l \in DOMAIN heap[kk] : \E i \in DOMAIN heap[kk][l] :
                          heap[kk][l][i] = posted'[kk][p] /\ BehindCursor(kk, l, i)'
    BY <1>10 DEF PostedIsBehind
  <2>1. CASE p \in DOMAIN posted[kk] /\ posted'[kk][p] = posted[kk][p]
    <3>1. PICK l \in DOMAIN heap[kk] : \E i \in DOMAIN heap[kk][l] : heap[kk][l][i] = posted[kk][p] /\ BehindCursor(kk, l, i)
      BY <2>1 DEF PostedIsBehind
    <3>2. PICK i \in DOMAIN heap[kk][l] : heap[kk][l][i] = posted[kk][p] /\ BehindCursor(kk, l, i)
      BY <3>1
    <3>3. BehindCursor(kk, l, i)'
      BY <1>15, <3>2
    <3>4. heap[kk][l][i] = posted'[kk][p]
      BY <2>1, <3>2
    <3> QED BY <3>3, <3>4
  <2>2. CASE kk = k /\ \E i \in 1..(end - at) : p = Len(old) + i
    <3>1. PICK i \in 1..(end - at) : p = Len(old) + i
      BY <2>2
    <3>2. posted'[kk][p] = t[at + i]
      BY <1>7, <1>9, <2>2, <3>1
    <3>3. at + i \in DOMAIN t /\ at + i \in 1..end
      BY <1>7
    <3>4. heap[kk][Taken(k)][at + i] = posted'[kk][p] /\ BehindCursor(kk, Taken(k), at + i)'
      BY <1>3, <1>16, <2>2, <3>2, <3>3
    <3>5. Taken(k) \in DOMAIN heap[kk] /\ at + i \in DOMAIN heap[kk][Taken(k)]
      BY <1>3, <2>2, <3>3
    <3>6. PICK l \in DOMAIN heap[kk] : l = Taken(k)
      BY <3>5
    <3>7. PICK q \in DOMAIN heap[kk][l] : q = at + i
      BY <3>5, <3>6
    <3>8. heap[kk][l][q] = posted'[kk][p]
      BY <3>4, <3>6, <3>7
    <3>9. BehindCursor(kk, l, q)'
      BY <1>13, <3>4, <3>6, <3>7 DEF BehindCursor
    <3> QED BY <3>8, <3>9
  <2>3. kk # k \/ p \in 1..Len(old) \/ \E i \in 1..(end - at) : p = Len(old) + i
    <3>1. ASSUME kk = k, p \notin 1..Len(old) PROVE p - Len(old) \in 1..(end - at) /\ p = Len(old) + (p - Len(old))
      BY <1>5, <1>7, <1>8, <1>9, <3>1
    <3> QED BY <3>1
  <2> QED BY <1>6, <1>7, <1>8, <1>9, <2>1, <2>2, <2>3
<1>18. PostedInOrder'
  <2> SUFFICES ASSUME NEW i \in DOMAIN new, NEW j \in DOMAIN new, i < j PROVE new[i] < new[j]
    BY <1>9 DEF PostedInOrder
  <2>1. CASE j \in 1..Len(old)
    <3>1. i \in 1..Len(old)
      BY <1>7, <1>8, <2>1
    <3> QED BY <1>6, <1>7, <1>8, <2>1, <3>1 DEF PostedInOrder
  <2>2. CASE j \notin 1..Len(old)
    <3>1. PICK jj \in 1..(end - at) : j = Len(old) + jj
      <4>1. j - Len(old) \in 1..(end - at) /\ j = Len(old) + (j - Len(old))
        BY <1>5, <1>7, <1>8, <2>2
      <4> QED BY <4>1
    <3>2. new[j] = t[at + jj] /\ at + jj \in DOMAIN t
      <4>1. new[j] = t[at + jj]
        BY <1>7, <3>1
      <4> QED BY <1>7, <4>1
    <3>3. CASE i \in 1..Len(old)
      <4>1. new[i] = posted[k][i] /\ i \in DOMAIN posted[k]
        BY <1>6, <1>7, <1>8, <3>3
      <4>2. PICK l \in DOMAIN heap[k] : \E q \in DOMAIN heap[k][l] : heap[k][l][q] = posted[k][i] /\ BehindCursor(k, l, q)
        BY <4>1 DEF PostedIsBehind
      <4>3. PICK q \in DOMAIN heap[k][l] : heap[k][l][q] = posted[k][i] /\ BehindCursor(k, l, q)
        BY <4>2
      <4>4. l \in Nat /\ Taken(k) \in Nat /\ l < Taken(k) + 1 /\ q \in Nat
        <5>0. Taken(k) \in DOMAIN heap[k]
          BY <1>3
        <5>2. DOMAIN heap[k] = 1..Len(heap[k]) /\ Len(heap[k]) \in Nat /\ DOMAIN heap[k][l] = 1..Len(heap[k][l])
          BY HeapLists
        <5>1. Current(k) \in Nat /\ l \in Nat /\ q \in Nat /\ Taken(k) \in Nat
          BY SMTT(30), <5>0, <5>2 DEF Current
        <5> QED BY <4>3, <5>1 DEF BehindCursor, Taken
      <4>5. CASE l < Taken(k)
        BY <1>3, <3>2, <4>1, <4>3, <4>5 DEF HeapInOrder
      <4>6. CASE l = Taken(k)
        <5>1. q < at + jj
          <6>1. q <= at
            BY <1>2, <1>4, <4>3, <4>6 DEF BehindCursor
          <6> QED BY <4>4, <6>1
        <5> QED BY <1>3, <3>2, <4>1, <4>3, <4>6, <5>1 DEF HeapInOrder
      <4> QED BY <4>4, <4>5, <4>6
    <3>4. CASE i \notin 1..Len(old)
      <4>1. PICK ii \in 1..(end - at) : i = Len(old) + ii
        <5> DEFINE lo == Len(old)
        <5>2. lo \in Nat /\ i \in 1..(lo + (end - at)) /\ i \notin 1..lo
          BY <1>5, <1>7, <1>8, <3>4
        <5> HIDE DEF lo
        <5>3. i - lo \in 1..(end - at) /\ i = lo + (i - lo)
          BY <1>5, <5>2
        <5>1. i - Len(old) \in 1..(end - at) /\ i = Len(old) + (i - Len(old))
          BY <5>3 DEF lo
        <5> QED BY <5>1
      <4>2. new[i] = t[at + ii] /\ at + ii \in DOMAIN t /\ at + ii < at + jj
        <5>1. new[i] = t[at + ii]
          BY <1>7, <4>1
        <5>2. at + ii \in DOMAIN t
          BY <1>7
        <5>3. ii < jj
          BY <1>8, <3>1, <4>1
        <5> QED BY SMTT(30), <1>4, <5>1, <5>2, <5>3
      <4> QED BY <1>3, <3>2, <4>2 DEF HeapInOrder
    <3> QED BY <3>3, <3>4
  <2> QED BY <2>1, <2>2
<1>19. BehindIsPosted'
  <2> SUFFICES ASSUME NEW kk \in Lists, NEW l \in DOMAIN heap[kk], NEW i \in DOMAIN heap[kk][l]
               PROVE  ToCome(kk, l, i)' \/ heap[kk][l][i] \in AllOf(posted'[kk]) \union strays \union aborted
    BY <1>10 DEF BehindIsPosted, AllOf
  <2>1. AllOf(posted[kk]) \subseteq AllOf(posted'[kk])
    <3>1. CASE kk = k
      BY <1>5, <1>6, <1>7, <1>8, <1>9, <3>1 DEF AllOf
    <3>2. CASE kk # k
      BY <1>9, <3>2
    <3> QED BY <3>1, <3>2
  <2>2. CASE ToCome(kk, l, i) /\ ~ToCome(kk, l, i)'
    <3>1. kk = k /\ l = Taken(k) /\ i > at /\ i \in Nat
      BY <1>2, <1>4, <1>10, <1>13, <2>2, HeapLists DEF ToCome
    <3>2. i <= end
      <4>1. i <= n
        BY <1>3, <1>4, <3>1
      <4>2. cursor'.ended = TRUE \/ ~(i > end)
        BY <1>2, <1>10, <1>11, <1>13, <2>2, <3>1 DEF ToCome, HeapType
      <4> QED BY <1>11, <3>1, <4>1, <4>2
    <3>3. PICK q \in 1..(end - at) : i = at + q
      <4>1. i - at \in 1..(end - at) /\ i = at + (i - at)
        BY <3>1, <3>2
      <4> QED BY <4>1
    <3>4. new[Len(old) + q] = t[i] /\ Len(old) + q \in DOMAIN new
      BY <1>7, <3>3
    <3> QED BY <1>3, <1>9, <3>1, <3>4 DEF AllOf
  <2> QED BY <2>1, <2>2 DEF BehindIsPosted
<1> QED BY <1>11, <1>12, <1>14, <1>17, <1>18, <1>19

LEMMA StatsdStep ==
    ASSUME StatsdInv, [StatsdNext]_statsdVars
    PROVE  StatsdInv'
<1> USE DEF StatsdInv
<1>0. DOMAIN arrived = {"datagrams", "items"} /\ arrived.datagrams \in Nat /\ arrived.items \in Nat
  BY DEF HeapType
<1>1. CASE Receive
  <2>1. UNCHANGED <<heap, posted, cursor, flushing, reporterPc, strays, aborted, target>> /\ serverPc' = "packets"
    BY <1>1 DEF Receive, reporterVars
  <2>2. arrived'.items = arrived.items /\ DOMAIN arrived' = DOMAIN arrived /\ arrived'.datagrams \in Nat
    BY <1>0, <1>1 DEF Receive
  <2> QED BY <2>1, <2>2, ServerMoves
<1>2. CASE ParseMetric
  BY <1>0, <1>2, ServerMoves DEF ParseMetric, reporterVars
<1>3. CASE LookUp
  <2>1. UNCHANGED <<heap, posted, cursor, flushing, reporterPc, strays, aborted, arrived>> /\ serverPc' = "append"
    BY <1>3 DEF LookUp, reporterVars
  <2>2. \E k \in Lists : target' = [kind |-> k, list |-> Current(k)]
    BY <1>3 DEF LookUp
  <2> QED BY <1>0, <2>1, <2>2, ServerMoves
<1>4. CASE Append1
  BY <1>4, AppendKeeps
<1>5. CASE ParseRaises \/ Forward \/ ServerEnds \/ HandleSigterm \/ UNCHANGED statsdVars
  <2>1. UNCHANGED <<heap, posted, cursor, flushing, reporterPc, strays, aborted, arrived, target>>
    BY <1>5 DEF ParseRaises, Forward, ServerEnds, HandleSigterm, statsdVars, reporterVars
  <2>2. serverPc' = serverPc \/ serverPc' \in {"select", "stopped"}
    BY <1>5 DEF ParseRaises, Forward, ServerEnds, HandleSigterm, statsdVars, reporterVars
  <2>3. CASE serverPc' # "append"
    BY <1>0, <2>1, <2>3, ServerMoves
  <2>4. CASE serverPc' = serverPc
    BY <2>1, <2>4 DEF HeapType, HeapInOrder, NothingLater, FlushKnown, Flushes, Current, TakenList, PostedIsBehind,
           PostedInOrder, BehindIsPosted, BehindCursor, Taken, ToCome, AllOf
  <2> QED BY <2>2, <2>3, <2>4
<1>6. CASE FlushStarts
  <2>1. /\ UNCHANGED <<heap, posted, cursor, serverVars, aborted>> /\ reporterPc' \notin {"count", "post"}
        /\ flushing' \in Lists /\ \A k \in Lists : ~Flushes(k)
    BY <1>6 DEF FlushStarts, Lists, Flushes
  <2> QED BY <2>1, FlushOver
<1>7. CASE Take
  BY <1>7, TakeKeeps
<1>8. CASE Count
  BY <1>8, CountKeeps
<1>9. CASE Post
  BY <1>9, PostKeeps
<1>10. CASE PostsDone
  <2>1. AfterKind /\ UNCHANGED <<heap, posted, cursor, serverVars, aborted>> /\ cursor.ended
    BY <1>10 DEF PostsDone
  <2>2. reporterPc' \notin {"count", "post"} /\ flushing' \in Lists
    BY <2>1, AfterKindIs DEF HeapType, Lists
  <2>3. \A k \in Lists : Taken(k) # Current(k)
    BY HeapLists DEF Taken, Current
  <2> QED BY <2>1, <2>2, <2>3, FlushOver DEF ToCome
<1>11. CASE FlushRaises
  <2>1. /\ UNCHANGED <<heap, posted, cursor, serverVars, flushing>>
        /\ aborted' = aborted \union AllOf(TakenList(flushing)) /\ reporterPc' \notin {"count", "post"}
    BY <1>11 DEF FlushRaises
  <2>2. \A k \in Lists : Flushes(k) => \A i \in DOMAIN TakenList(k) : TakenList(k)[i] \in aborted'
    BY <2>1 DEF Flushes, AllOf
  <2> QED BY <2>1, <2>2, FlushOver DEF HeapType
<1> QED BY <1>1, <1>2, <1>3, <1>4, <1>5, <1>6, <1>7, <1>8, <1>9, <1>10, <1>11
        DEF StatsdNext, ServerStep, ReporterStep

LEMMA StatsdImplies == StatsdInv => EventsAccounted
<1> SUFFICES ASSUME StatsdInv, NEW k \in Lists
             PROVE  /\ \A i, j \in DOMAIN posted[k] : i < j => posted[k][i] < posted[k][j]
                    /\ UNION {AllOf(heap[k][l]) : l \in DOMAIN heap[k]}
                          \subseteq Pending(k) \union InFlush(k) \union AllOf(posted[k]) \union strays \union aborted
                    /\ AllOf(posted[k]) \cap (Pending(k) \union InFlush(k)) = {}
  BY DEF EventsAccounted
<1> USE DEF StatsdInv
<1>1. /\ Current(k) \in DOMAIN heap[k] /\ DOMAIN heap[k] \subseteq Nat
      /\ \A l \in DOMAIN heap[k] : Len(heap[k][l]) \in Nat /\ DOMAIN heap[k][l] = 1..Len(heap[k][l])
  <2>1. HeapType
    OBVIOUS
  <2>2. /\ Len(heap[k]) \in Nat /\ DOMAIN heap[k] = 1..Len(heap[k])
        /\ \A l \in DOMAIN heap[k] : Len(heap[k][l]) \in Nat /\ DOMAIN heap[k][l] = 1..Len(heap[k][l])
    BY <2>1, HeapLists
  <2>3. Len(heap[k]) > 0
    BY <2>1 DEF HeapType
  <2> HIDE DEF StatsdInv
  <2> QED BY <2>2, <2>3 DEF Current
<1>2. ASSUME Flushes(k)
      PROVE  Taken(k) \in DOMAIN heap[k] /\ TakenList(k) = heap[k][Taken(k)]
  BY <1>2, HeapLists DEF FlushKnown, Taken, Current, TakenList
\* What is in the flush is what is to come of the list that was taken.
<1>3. InFlush(k) = IF Flushes(k) THEN {heap[k][Taken(k)][i] : i \in {j \in DOMAIN heap[k][Taken(k)] : ToCome(k, Taken(k), j)}}
                                 ELSE {}
  <2>1. Taken(k) # Current(k)
    BY <1>1 DEF Taken
  <2>2. CASE Flushes(k) /\ ~cursor.ended
    <3>1. PICK t \in Seq(Nat), at \in Nat : /\ t = heap[k][Taken(k)] /\ at = cursor.at
                                           /\ t = TakenList(k) /\ DOMAIN t = 1..Len(t) /\ Len(t) \in Nat
      BY <1>2, <2>2, HeapLists DEF HeapType
    <3>2. InFlush(k) = {t[i] : i \in (IF reporterPc = "post" THEN at + 1 ELSE 1)..Len(t)}
      BY <2>2, <3>1 DEF InFlush, Flushes
    <3>3. {j \in DOMAIN t : ToCome(k, Taken(k), j)} = (IF reporterPc = "post" THEN at + 1 ELSE 1)..Len(t)
      <4>1. \A j \in DOMAIN t : ToCome(k, Taken(k), j) <=> (reporterPc = "post" => j > at)
        BY <2>1, <2>2, <3>1 DEF ToCome
      <4>2. CASE reporterPc = "post"
        BY <3>1, <4>1, <4>2
      <4>3. CASE reporterPc # "post"
        BY <3>1, <4>1, <4>3
      <4> QED BY <4>2, <4>3
    <3> QED BY <2>2, <3>1, <3>2, <3>3
  <2>3. CASE Flushes(k) /\ cursor.ended
    BY <2>1, <2>3 DEF InFlush, ToCome
  <2>4. CASE ~Flushes(k)
    BY <2>4 DEF InFlush, Flushes
  <2> QED BY <2>2, <2>3, <2>4
<1>4. ASSUME NEW l \in DOMAIN heap[k], NEW i \in DOMAIN heap[k][l]
      PROVE  heap[k][l][i] \in Pending(k) \union InFlush(k) \union AllOf(posted[k]) \union strays \union aborted
  <2>1. CASE l = Current(k)
    BY <2>1 DEF Pending, AllOf
  <2>2. CASE l # Current(k) /\ ToCome(k, l, i)
    BY <1>3, <2>2 DEF ToCome
  <2>3. CASE ~ToCome(k, l, i)
    BY <2>3 DEF BehindIsPosted
  <2> QED BY <2>1, <2>2, <2>3
<1>5. UNION {AllOf(heap[k][l]) : l \in DOMAIN heap[k]}
          \subseteq Pending(k) \union InFlush(k) \union AllOf(posted[k]) \union strays \union aborted
  BY <1>4 DEF AllOf
<1>6. ASSUME NEW p \in DOMAIN posted[k], posted[k][p] \in Pending(k) \union InFlush(k) PROVE FALSE
  <2>1. PICK l \in DOMAIN heap[k] : \E i \in DOMAIN heap[k][l] : heap[k][l][i] = posted[k][p] /\ BehindCursor(k, l, i)
    BY DEF PostedIsBehind
  <2>2. PICK i \in DOMAIN heap[k][l] : heap[k][l][i] = posted[k][p] /\ BehindCursor(k, l, i)
    BY <2>1
  <2>3. PICK m \in DOMAIN heap[k] : \E j \in DOMAIN heap[k][m] : heap[k][m][j] = posted[k][p] /\ ToCome(k, m, j)
    <3>1. CASE posted[k][p] \in Pending(k)
      BY <1>1, <3>1 DEF Pending, AllOf, ToCome
    <3>2. CASE posted[k][p] \in InFlush(k)
      BY <1>2, <1>3, <3>2
    <3> QED BY <1>6, <3>1, <3>2
  <2>4. PICK j \in DOMAIN heap[k][m] : heap[k][m][j] = posted[k][p] /\ ToCome(k, m, j)
    BY <2>3
  <2>5. heap[k][l][i] \in Nat
    BY SMTT(30), HeapLists
  <2>6. l = m /\ i = j
    <3>1. ~(l < m) /\ ~(m < l)
      BY <2>2, <2>4, <2>5 DEF HeapInOrder
    <3>2. l = m
      BY <1>1, <3>1
    <3>3. ~(i < j) /\ ~(j < i)
      BY <2>2, <2>4, <2>5, <3>2 DEF HeapInOrder
    <3> QED BY <1>1, <3>2, <3>3
  <2>7. l \in Nat /\ l < Current(k) /\ Current(k) \in Nat /\ i \in Nat /\ cursor.at \in Nat
    <3>1. l \in Nat /\ Current(k) \in Nat
      BY <1>1
    <3>2. i \in Nat
      BY <1>1
    <3> QED BY <2>2, <3>1, <3>2 DEF BehindCursor, HeapType
  <2>8. l # Current(k)
    BY <2>7
  <2> QED BY <2>2, <2>4, <2>6, <2>7, <2>8 DEF BehindCursor, ToCome
<1> QED BY <1>5, <1>6 DEF PostedInOrder, AllOf

\* For any datagrams, chunk size and number of flushes, wherever the two threads that
\* share the lists without a lock are: events and service checks are posted once and in
\* the order in which they came, and what was received is pending, in the flush or
\* posted, unless it came late to a list that was taken or its flush raised.
THEOREM EventsCorrect == StatsdSpec => []EventsAccounted
<1>1. StatsdSpec => []StatsdInv
  BY StatsdInitially, StatsdStep, PTL DEF StatsdSpec
<1> QED BY <1>1, StatsdImplies, PTL

-----------------------------------------------------------------------------
(* ThreadPool                                                                *)

JobsIn(u) == {u[i] : i \in DOMAIN u}
OnceEach(u) == \A i, j \in DOMAIN u : i # j => u[i] # u[j]

PoolType ==
    /\ howCalled \in CallPlans
    /\ toPut \in [PoolCalls -> Seq(Seq(AllJobs))]
    /\ workq \in Seq(Seq(AllJobs) \cup {Sentinel})
    /\ unit \in [PoolWorkers -> Seq(AllJobs)]
    /\ workerPc \in [PoolWorkers -> {"get", "job", "notify", "tell", "ended"}]
    /\ \A w \in PoolWorkers : workerPc[w] \in {"get", "ended"} <=> unit[w] = <<>>
    /\ callPc \in [PoolCalls -> {"no", "refused", "putting", "made"}]
    /\ \A c \in PoolCalls : callPc[c] = "putting" <=> toPut[c] # <<>>
    /\ results \in [AllJobs -> {"no", "value", "exception"}]
    /\ remaining \in [PoolCalls -> Int] /\ collection \in [PoolCalls -> Seq(Nat)]
    /\ outer \in [PoolCalls -> {"no", "list", "exception", "iterator"}] /\ outerSets \in [PoolCalls -> Nat]
    /\ idx \in [PoolCalls -> Nat \ {0}] /\ yielded \in [PoolCalls -> Seq(Nat)] /\ over \in [PoolCalls -> BOOLEAN]
    /\ timeouts \in Nat

\* Every job is in one place at most: it is to be put on the queue, it is there, or a
\* thread has it.
InToPut(c, s) == JobsIn(toPut[c][s])
InQueue(q) == JobsIn(workq[q]) \cap AllJobs
AtWorker(w) == JobsIn(unit[w])

OnePlaceEach ==
    /\ \A c \in PoolCalls : \A s \in DOMAIN toPut[c] :
          /\ OnceEach(toPut[c][s]) /\ InToPut(c, s) \subseteq JobsOf(c)
          /\ \A t \in DOMAIN toPut[c] : s # t => InToPut(c, s) \cap InToPut(c, t) = {}
          /\ \A q \in DOMAIN workq : InToPut(c, s) \cap InQueue(q) = {}
          /\ \A w \in PoolWorkers : InToPut(c, s) \cap AtWorker(w) = {}
    /\ \A q \in DOMAIN workq :
          /\ OnceEach(workq[q])
          /\ \A r \in DOMAIN workq : q # r => InQueue(q) \cap InQueue(r) = {}
          /\ \A w \in PoolWorkers : InQueue(q) \cap AtWorker(w) = {}
    /\ \A w \in PoolWorkers :
          /\ OnceEach(unit[w])
          /\ \A v \in PoolWorkers : w # v => AtWorker(w) \cap AtWorker(v) = {}

\* A job has a result when a thread has run it, the first of those it has.
Runs(w) == workerPc[w] \in {"notify", "tell"}
NotRun ==
    /\ \A c \in PoolCalls : \A s \in DOMAIN toPut[c] : \A j \in InToPut(c, s) : results[j] = "no"
    /\ \A q \in DOMAIN workq : \A j \in InQueue(q) : results[j] = "no"
    /\ \A w \in PoolWorkers : \A i \in DOMAIN unit[w] :
          results[unit[w][i]] = "no" <=> ~(i = 1 /\ Runs(w))
    \* A call that was not made has no jobs anywhere, and no results.
    /\ \A c \in PoolCalls : callPc[c] \in {"no", "refused"} =>
          /\ \A q \in DOMAIN workq : InQueue(q) \cap JobsOf(c) = {}
          /\ \A w \in PoolWorkers : AtWorker(w) \cap JobsOf(c) = {}
          /\ \A j \in JobsOf(c) : results[j] = "no"
          /\ collection[c] = <<>> /\ outer[c] = "no" /\ outerSets[c] = 0

\* The jobs that the collector of a call was not told of.
Unnotified(c) ==
    {j \in JobsOf(c) : results[j] = "no" \/ \E w \in PoolWorkers : workerPc[w] = "notify" /\ Head(unit[w]) = j}

Counted ==
    \A c \in PoolCalls :
        IF Ordered(c) THEN callPc[c] \notin {"no", "refused"} => remaining[c] = Cardinality(Unnotified(c))
        ELSE /\ \A i \in DOMAIN collection[c] : <<c, collection[c][i]>> \in JobsOf(c) \ Unnotified(c)
             /\ OnceEach(collection[c])

\* The result of a call is set by one thread, when all or one of the jobs have theirs.
Telling(w, c) == workerPc[w] = "tell" /\ CallOf(w) = c
Told(c) == outerSets[c] > 0 \/ \E w \in PoolWorkers : Telling(w, c)
ToldOnce ==
    \A c \in PoolCalls :
        /\ outerSets[c] = 0 \/ (outerSets[c] = 1 /\ \A w \in PoolWorkers : ~Telling(w, c))
        /\ \A w, v \in PoolWorkers : Telling(w, c) /\ Telling(v, c) => w = v
        /\ Told(c) => \/ KindOf(c) = "map" /\ Unnotified(c) = {}
                      \/ KindOf(c) = "imap_async" /\ Unnotified(c) # JobsOf(c)
                      \/ KindOf(c) = "unordered_async" /\ collection[c] # <<>>
        /\ outer[c] # "no" => outerSets[c] = 1
        /\ outer[c] \in {"list", "exception"} => KindOf(c) = "map"
        /\ outer[c] = "iterator" => KindOf(c) # "map"

\* What the iterator gave, if it never timed out.
Iterated ==
    timeouts = 0 => \A c \in PoolCalls :
        /\ idx[c] = IF over[c] THEN 1 ELSE Len(yielded[c]) + 1
        /\ Len(yielded[c]) <= howCalled[c].n /\ (over[c] => Len(yielded[c]) = howCalled[c].n)
        /\ \A i \in DOMAIN yielded[c] :
              IF Ordered(c) THEN yielded[c][i] = i /\ results[<<c, i>>] # "no"
              ELSE i \in DOMAIN collection[c] /\ yielded[c][i] = collection[c][i]

PoolInv == PoolType /\ OnePlaceEach /\ NotRun /\ Counted /\ ToldOnce /\ Iterated

-----------------------------------------------------------------------------
LEMMA PlanType ==
    ASSUME PoolType, NEW c \in PoolCalls
    PROVE  /\ KindOf(c) \in Kinds6 /\ howCalled[c].n \in Nat /\ howCalled[c].chunk \in Nat \ {0}
           /\ KindOf(c) = "apply" => howCalled[c].n = 1
BY PoolAssumption DEF PoolType, KindOf

\* A unit of jobs without the first.
LEMMA RestOfUnit ==
    ASSUME NEW S, NEW u \in Seq(S), u # <<>>
    PROVE  /\ Tail(u) \in Seq(S) /\ Head(u) \in S /\ Head(u) \in JobsIn(u) /\ 1 \in DOMAIN u /\ u[1] = Head(u)
           /\ DOMAIN Tail(u) = 1..(Len(u) - 1) /\ DOMAIN u = 1..Len(u) /\ Len(u) \in Nat
           /\ \A i \in DOMAIN Tail(u) : i + 1 \in DOMAIN u /\ i + 1 # 1 /\ Tail(u)[i] = u[i + 1]
           /\ JobsIn(Tail(u)) \subseteq JobsIn(u)
           /\ OnceEach(u) => OnceEach(Tail(u)) /\ Head(u) \notin JobsIn(Tail(u))
           /\ Tail(u) = <<>> <=> Len(u) = 1
<1>1. /\ Tail(u) \in Seq(S) /\ Len(Tail(u)) = Len(u) - 1 /\ Head(u) \in S
      /\ \A i \in 1..Len(Tail(u)) : Tail(u)[i] = u[i + 1]
  BY HeadTailProperties
<1>2. Len(u) \in Nat /\ Len(u) # 0 /\ DOMAIN u = 1..Len(u) /\ Head(u) = u[1]
  BY EmptySeq
<1>3. PICK t \in Seq(S) : t = Tail(u)
  BY <1>1
<1>4. DOMAIN t = 1..Len(t) /\ Len(t) = Len(u) - 1 /\ (t = <<>> <=> Len(t) = 0)
  <2>1. \A r \in Seq(S) : DOMAIN r = 1..Len(r) /\ (r = <<>> <=> Len(r) = 0)
    BY EmptySeq
  <2>2. Len(t) = Len(u) - 1
    BY <1>1, <1>3
  <2> QED BY <2>1, <2>2
<1>5. \A i \in DOMAIN t : i + 1 \in DOMAIN u /\ i + 1 # 1 /\ t[i] = u[i + 1]
  BY <1>1, <1>2, <1>3, <1>4
<1>6. JobsIn(t) \subseteq JobsIn(u) /\ u[1] \in JobsIn(u) /\ 1 \in DOMAIN u
  BY <1>2, <1>5 DEF JobsIn
<1>7. ASSUME OnceEach(u) PROVE OnceEach(t) /\ u[1] \notin JobsIn(t)
  <2>1. \A i, j \in DOMAIN t : i # j => i + 1 # j + 1
    BY <1>2, <1>4
  <2> QED BY <1>5, <1>6, <1>7, <2>1 DEF OnceEach, JobsIn
<1>8. t = <<>> <=> Len(u) = 1
  BY <1>2, <1>4
<1> QED BY <1>1, <1>2, <1>3, <1>4, <1>5, <1>6, <1>7, <1>8

LEMMA OneMore ==
    ASSUME NEW S, NEW u \in Seq(S), NEW e \in S
    PROVE  /\ Append(u, e) \in Seq(S) /\ DOMAIN Append(u, e) = 1..(Len(u) + 1) /\ DOMAIN u = 1..Len(u)
           /\ DOMAIN Append(u, e) = DOMAIN u \cup {Len(u) + 1} /\ Len(u) \in Nat /\ Len(u) + 1 \notin DOMAIN u
           /\ Append(u, e)[Len(u) + 1] = e
           /\ \A i \in DOMAIN u : Append(u, e)[i] = u[i]
           /\ Len(Append(u, e)) = Len(u) + 1 /\ Append(u, e) # <<>>
<1>1. /\ Append(u, e) \in Seq(S) /\ Len(Append(u, e)) = Len(u) + 1
      /\ \A i \in 1..Len(u) : Append(u, e)[i] = u[i]
      /\ Append(u, e)[Len(u) + 1] = e
  BY AppendProperties
<1>2. PICK t \in Seq(S) : t = Append(u, e)
  BY <1>1
<1>3. Len(u) \in Nat /\ DOMAIN u = 1..Len(u) /\ DOMAIN t = 1..Len(t) /\ Len(t) = Len(u) + 1
  BY <1>1, <1>2
<1>4. t # <<>>
  BY <1>3, EmptySeq
<1> QED BY <1>1, <1>2, <1>3, <1>4

\* What is taken off a queue, and put on it, for any unit.
LEMMA DivAndRest ==
    ASSUME NEW n \in Nat, NEW k \in Nat \ {0}
    PROVE  n \div k \in Nat /\ (n \div k) * k <= n
OBVIOUS

LEMMA ChunkBounds ==
    ASSUME NEW n \in Nat, NEW k \in Nat \ {0}, NEW s \in 1..(n \div k + 1)
    PROVE  /\ (s - 1) * k \in Nat /\ s * k \in Nat /\ (s - 1) * k <= n /\ s * k = (s - 1) * k + k
<1>1. PICK q \in Nat : q = n \div k /\ q * k <= n
  BY DivAndRest
<1>2. s \in Nat /\ s >= 1 /\ s - 1 <= q /\ s - 1 \in Nat
  BY <1>1
<1>3. (s - 1) * k <= q * k
  BY <1>1, <1>2
<1>4. (s - 1) * k \in Nat /\ s * k \in Nat /\ q * k \in Nat
  BY <1>1, <1>2
<1>5. s * k = (s - 1) * k + k
  BY <1>2
<1> QED BY <1>1, <1>3, <1>4, <1>5

\* The sequences that _create_sequences() makes: every job once, and none twice.
LEMMA ChunksType ==
    ASSUME PoolType, NEW c \in PoolCalls
    PROVE  /\ Chunks(c) \in Seq(Seq(AllJobs)) /\ Chunks(c) # <<>>
           /\ \A s \in DOMAIN Chunks(c) :
                /\ OnceEach(Chunks(c)[s]) /\ JobsIn(Chunks(c)[s]) \subseteq JobsOf(c)
                /\ \A t \in DOMAIN Chunks(c) : s # t => JobsIn(Chunks(c)[s]) \cap JobsIn(Chunks(c)[t]) = {}
<1>0. PICK n, k : n = howCalled[c].n /\ k = howCalled[c].chunk
  OBVIOUS
<1>1. n \in Nat /\ k \in Nat \ {0} /\ (KindOf(c) = "apply" => n = 1)
  BY <1>0, PlanType
<1>2. JobsOf(c) = {<<c, i>> : i \in 1..n} /\ JobsOf(c) \subseteq AllJobs
  BY <1>0 DEF JobsOf, AllJobs
<1>3. CASE KindOf(c) = "apply"
  <2>1. Chunks(c) = <<<<<<c, 1>>>>>>
    BY <1>3 DEF Chunks
  <2>2. <<c, 1>> \in JobsOf(c)
    BY <1>1, <1>2, <1>3
  <2>3. <<<<c, 1>>>> \in Seq(AllJobs) /\ DOMAIN <<<<c, 1>>>> = {1} /\ JobsIn(<<<<c, 1>>>>) = {<<c, 1>>}
    BY <1>2, <2>2 DEF JobsIn
  <2>4. OnceEach(<<<<c, 1>>>>)
    BY <2>3 DEF OnceEach
  <2>5. PICK a : a = <<<<c, 1>>>>
    OBVIOUS
  <2>6. \A x \in Seq(AllJobs) : <<x>> \in Seq(Seq(AllJobs)) /\ DOMAIN <<x>> = {1} /\ <<x>>[1] = x /\ <<x>> # <<>>
    OBVIOUS
  <2> QED BY <2>1, <2>2, <2>3, <2>4, <2>5, <2>6
<1>4. CASE KindOf(c) # "apply"
  <2> DEFINE q == n \div k
             size(s) == IF s * k <= n THEN k ELSE n - (s - 1) * k
             chunk(s) == [i \in 1..size(s) |-> <<c, (s - 1) * k + i>>]
             all == [s \in 1..(q + 1) |-> chunk(s)]
  <2>1. Chunks(c) = all
    BY <1>0, <1>4 DEF Chunks
  <2>2. q \in Nat
    BY <1>1, DivAndRest
  <2>3. ASSUME NEW s \in 1..(q + 1)
        PROVE  /\ size(s) \in Nat /\ size(s) <= k /\ (s - 1) * k \in Nat /\ s \in Nat
               /\ \A i \in 1..size(s) : (s - 1) * k + i \in 1..n /\ (s - 1) * k + i <= s * k
    <3>1. /\ (s - 1) * k \in Nat /\ s * k \in Nat /\ (s - 1) * k <= n /\ s * k = (s - 1) * k + k
      BY <1>1, <2>3, ChunkBounds
    <3>2. PICK a, b : a = (s - 1) * k /\ b = s * k
      OBVIOUS
    <3>3. PICK z : z = IF b <= n THEN k ELSE n - a
      OBVIOUS
    <3>4. z = size(s)
      BY <3>2, <3>3
    <3>5. a \in Nat /\ b = a + k /\ a <= n
      BY <3>1, <3>2
    <3>6. z \in Nat /\ z <= k /\ (\A i \in 1..z : a + i \in 1..n /\ a + i <= b)
      BY <3>3, <3>5, <1>1
    <3> QED BY <3>2, <3>4, <3>5, <3>6, <2>2
  <2>4. ASSUME NEW s \in 1..(q + 1)
        PROVE  /\ chunk(s) \in Seq(AllJobs) /\ DOMAIN chunk(s) = 1..size(s)
               /\ \A i \in 1..size(s) : chunk(s)[i] = <<c, (s - 1) * k + i>>
    <3>1. PICK z, a : z = size(s) /\ a = (s - 1) * k
      OBVIOUS
    <3>2. z \in Nat /\ a \in Nat /\ \A i \in 1..z : a + i \in 1..n
      BY <2>3, <3>1
    <3>3. \A i \in 1..z : <<c, a + i>> \in AllJobs
      BY <1>2, <3>2
    <3>4. [i \in 1..z |-> <<c, a + i>>] \in Seq(AllJobs)
      BY <3>2, <3>3
    <3>5. chunk(s) = [i \in 1..z |-> <<c, a + i>>]
      BY <3>1
    <3> HIDE DEF size
    <3> QED BY <3>1, <3>4, <3>5
  <2> HIDE DEF q, size, chunk
  <2>5. all \in Seq(Seq(AllJobs)) /\ all # <<>> /\ DOMAIN all = 1..(q + 1) /\ \A s \in 1..(q + 1) : all[s] = chunk(s)
    <3>1. q + 1 \in Nat /\ 1 \in 1..(q + 1)
      BY <2>2
    <3>2. \A s \in 1..(q + 1) : chunk(s) \in Seq(AllJobs)
      BY <2>4
    <3>3. all \in Seq(Seq(AllJobs)) /\ DOMAIN all = 1..(q + 1)
      BY <3>1, <3>2
    <3>4. DOMAIN <<>> = {}
      OBVIOUS
    <3> QED BY <3>1, <3>3, <3>4
  <2> HIDE DEF all
  <2>6. ASSUME NEW s \in 1..(q + 1) PROVE OnceEach(chunk(s)) /\ JobsIn(chunk(s)) \subseteq JobsOf(c)
    <3>1. \A i, j \in 1..size(s) : i # j => (s - 1) * k + i # (s - 1) * k + j
      <4>1. PICK z, a : z = size(s) /\ a = (s - 1) * k
        OBVIOUS
      <4>2. z \in Nat /\ a \in Nat
        BY <2>3, <4>1
      <4>3. \A i, j \in 1..z : i # j => a + i # a + j
        BY <4>2
      <4> QED BY <4>1, <4>3
    <3>2. OnceEach(chunk(s))
      <4>1. PICK u, z : u = chunk(s) /\ z = size(s)
        OBVIOUS
      <4>2. DOMAIN u = 1..z /\ \A i \in 1..z : u[i] = <<c, (s - 1) * k + i>>
        BY <2>4, <4>1
      <4>3. \A i, j \in 1..z : i # j => <<c, (s - 1) * k + i>> # <<c, (s - 1) * k + j>>
        BY <3>1, <4>1
      <4>4. \A i, j \in DOMAIN u : i # j => u[i] # u[j]
        BY <4>2, <4>3, Zenon
      <4> QED BY <4>1, <4>4 DEF OnceEach
    <3>3. \A i \in 1..size(s) : <<c, (s - 1) * k + i>> \in JobsOf(c)
      BY <1>2, <2>3
    <3> QED BY <2>4, <3>2, <3>3 DEF JobsIn
  <2>7. ASSUME NEW s \in 1..(q + 1), NEW t \in 1..(q + 1), s < t
        PROVE  JobsIn(chunk(s)) \cap JobsIn(chunk(t)) = {}
    <3>1. s * k <= (t - 1) * k
      <4>1. s <= t - 1 /\ s \in Nat /\ t - 1 \in Nat
        BY <2>2, <2>7
      <4> QED BY <4>1, <1>1
    <3>2. ASSUME NEW i \in 1..size(s), NEW j \in 1..size(t) PROVE (s - 1) * k + i # (t - 1) * k + j
      <4>1. (s - 1) * k + i <= s * k /\ (t - 1) * k \in Nat /\ (s - 1) * k \in Nat /\ j >= 1 /\ j \in Nat /\ i \in Nat
        BY <2>3, <3>2
      <4>2. PICK a, b, d : a = (s - 1) * k + i /\ b = (t - 1) * k /\ d = s * k
        OBVIOUS
      <4>3. a \in Nat /\ b \in Nat /\ d \in Nat /\ a <= d /\ d <= b
        BY <4>1, <4>2, <3>1, <1>1, <2>3
      <4>4. a # b + j
        BY <4>1, <4>3
      <4> QED BY <4>2, <4>4
    <3>3. \A i \in 1..size(s), j \in 1..size(t) : <<c, (s - 1) * k + i>> # <<c, (t - 1) * k + j>>
      BY <3>2
    <3>4. PICK u, v, y, z : u = chunk(s) /\ y = size(s) /\ v = chunk(t) /\ z = size(t)
      OBVIOUS
    <3>5. DOMAIN u = 1..y /\ \A i \in 1..y : u[i] = <<c, (s - 1) * k + i>>
      BY <2>4, <3>4
    <3>6. DOMAIN v = 1..z /\ \A j \in 1..z : v[j] = <<c, (t - 1) * k + j>>
      BY <2>4, <3>4
    <3>7. \A i \in 1..y, j \in 1..z : <<c, (s - 1) * k + i>> # <<c, (t - 1) * k + j>>
      BY <3>3, <3>4
    <3>8. \A i \in DOMAIN u, j \in DOMAIN v : u[i] # v[j]
      BY <3>5, <3>6, <3>7, Zenon
    <3> QED BY <3>4, <3>8 DEF JobsIn
  <2>8. \A s, t \in 1..(q + 1) : s # t => JobsIn(chunk(s)) \cap JobsIn(chunk(t)) = {}
    <3>1. \A s, t \in 1..(q + 1) : s # t => s < t \/ t < s
      BY <2>2
    <3> QED BY <2>7, <3>1
  <2> QED BY <2>1, <2>5, <2>6, <2>8
<1> QED BY <1>3, <1>4

LEMMA CountOfJobs ==
    ASSUME PoolType, NEW c \in PoolCalls
    PROVE  IsFiniteSet(JobsOf(c)) /\ Cardinality(JobsOf(c)) = howCalled[c].n
<1>1. PICK n \in Nat : n = howCalled[c].n
  BY PlanType
<1>2. IsFiniteSet(1..n) /\ Cardinality(1..n) = n
  <2>1. /\ IsFiniteSet(1..n)
        /\ Cardinality(1..n) = IF 1 > n THEN 0 ELSE n - 1 + 1
    <3>1. 1 \in Int /\ n \in Int
      OBVIOUS
    <3> QED BY <3>1, FS_Interval, Zenon
  <2> QED BY <1>1, <2>1
<1>3. PICK f : f = [i \in 1..n |-> <<c, i>>]
  OBVIOUS
<1>4. f \in Bijection(1..n, JobsOf(c))
  <2>1. JobsOf(c) = {<<c, i>> : i \in 1..n}
    BY <1>1 DEF JobsOf
  <2>2. \A i, j \in 1..n : f[i] = f[j] => i = j
    BY <1>3
  <2>3. f \in [1..n -> JobsOf(c)] /\ \A j \in JobsOf(c) : \E i \in 1..n : f[i] = j
    BY <1>3, <2>1
  <2> QED BY <2>2, <2>3 DEF Bijection, Injection, Surjection, IsInjective
<1> QED BY <1>1, <1>2, <1>4, FS_Bijection DEF ExistsBijection

-----------------------------------------------------------------------------
LEMMA PoolInitially == PoolInit => PoolInv
<1> SUFFICES ASSUME PoolInit PROVE PoolInv
  OBVIOUS
<1> USE DEF PoolInit
<1>1. <<>> \in Seq(Seq(AllJobs)) /\ <<>> \in Seq(Seq(AllJobs) \cup {Sentinel}) /\ <<>> \in Seq(AllJobs) /\ <<>> \in Seq(Nat)
  BY EmptySeq
<1>2. PoolType
  BY <1>1 DEF PoolType
<1>3. DOMAIN <<>> = {} /\ Len(<<>>) = 0
  OBVIOUS
<1>4. /\ \A c \in PoolCalls : /\ DOMAIN toPut[c] = {} /\ DOMAIN collection[c] = {} /\ DOMAIN yielded[c] = {}
                              /\ Len(yielded[c]) = 0 /\ idx[c] = 1 /\ ~over[c] /\ outer[c] = "no" /\ outerSets[c] = 0
                              /\ collection[c] = <<>> /\ callPc[c] = "no"
      /\ DOMAIN workq = {}
      /\ \A w \in PoolWorkers : DOMAIN unit[w] = {} /\ workerPc[w] = "get"
  BY <1>3
<1>5. OnePlaceEach
  BY <1>4 DEF OnePlaceEach, OnceEach, AtWorker, JobsIn
<1>6. NotRun
  <2>1. \A w \in PoolWorkers : AtWorker(w) = {}
    BY <1>4 DEF AtWorker, JobsIn
  <2>2. \A c \in PoolCalls : \A j \in JobsOf(c) : results[j] = "no"
    BY DEF AllJobs
  <2> QED BY <1>4, <2>1, <2>2 DEF NotRun
<1>7. Counted
  BY <1>4 DEF Counted, OnceEach
<1>8. ToldOnce
  BY <1>4 DEF ToldOnce, Told, Telling
<1>9. Iterated
  <2>1. \A c \in PoolCalls : howCalled[c].n \in Nat
    BY <1>2, PlanType
  <2> QED BY <1>4, <2>1 DEF Iterated
<1> QED BY <1>2, <1>5, <1>6, <1>7, <1>8, <1>9 DEF PoolInv

-----------------------------------------------------------------------------
LEMMA PoolLists ==
    ASSUME PoolType
    PROVE  /\ \A c \in PoolCalls : /\ toPut[c] \in Seq(Seq(AllJobs)) /\ DOMAIN toPut[c] = 1..Len(toPut[c]) /\ Len(toPut[c]) \in Nat
                                   /\ collection[c] \in Seq(Nat) /\ DOMAIN collection[c] = 1..Len(collection[c]) /\ Len(collection[c]) \in Nat
                                   /\ yielded[c] \in Seq(Nat) /\ DOMAIN yielded[c] = 1..Len(yielded[c]) /\ Len(yielded[c]) \in Nat
                                   /\ JobsOf(c) \subseteq AllJobs
           /\ DOMAIN workq = 1..Len(workq) /\ Len(workq) \in Nat
           /\ \A w \in PoolWorkers : unit[w] \in Seq(AllJobs) /\ DOMAIN unit[w] = 1..Len(unit[w]) /\ Len(unit[w]) \in Nat
           /\ \A c, d \in PoolCalls : c # d => JobsOf(c) \cap JobsOf(d) = {}
           /\ \A u \in Seq(AllJobs) : JobsIn(u) \subseteq AllJobs
<1>1. \A S : \A u \in Seq(S) : DOMAIN u = 1..Len(u) /\ Len(u) \in Nat
  OBVIOUS
<1>2. \A c \in PoolCalls : toPut[c] \in Seq(Seq(AllJobs)) /\ collection[c] \in Seq(Nat) /\ yielded[c] \in Seq(Nat)
  BY DEF PoolType
<1>3. workq \in Seq(Seq(AllJobs) \cup {Sentinel}) /\ \A w \in PoolWorkers : unit[w] \in Seq(AllJobs)
  BY DEF PoolType
<1>4. \A c, d \in PoolCalls : c # d => JobsOf(c) \cap JobsOf(d) = {}
  BY DEF JobsOf
<1>5. \A u \in Seq(AllJobs) : \A i \in DOMAIN u : u[i] \in AllJobs
  OBVIOUS
<1>6. \A u \in Seq(AllJobs) : JobsIn(u) \subseteq AllJobs
  BY <1>5 DEF JobsIn
<1>7. \A c \in PoolCalls : JobsOf(c) \subseteq AllJobs
  BY DEF AllJobs
<1> QED BY <1>1, <1>2, <1>3, <1>4, <1>6, <1>7, Zenon

\* No step changes what is called.
LEMMA SamePlan ==
    ASSUME howCalled' = howCalled
    PROVE  /\ AllJobs' = AllJobs
           /\ \A c \in PoolCalls : JobsOf(c)' = JobsOf(c) /\ KindOf(c)' = KindOf(c) /\ Ordered(c)' = Ordered(c)
BY DEF AllJobs, JobsOf, KindOf, Ordered

\* Results that come, and a collection that grows, take nothing from the iterators.
LEMMA IteratedKept ==
    ASSUME PoolType, Iterated, howCalled' = howCalled, UNCHANGED iterVars,
           \A j \in AllJobs : results[j] # "no" => results'[j] # "no",
           \A c \in PoolCalls : \A i \in DOMAIN collection[c] :
               i \in DOMAIN collection'[c] /\ collection'[c][i] = collection[c][i]
    PROVE  Iterated'
<1> SUFFICES ASSUME timeouts = 0, NEW c \in PoolCalls
             PROVE  /\ idx[c] = IF over[c] THEN 1 ELSE Len(yielded[c]) + 1
                    /\ Len(yielded[c]) <= howCalled[c].n /\ (over[c] => Len(yielded[c]) = howCalled[c].n)
                    /\ \A i \in DOMAIN yielded[c] :
                        IF Ordered(c) THEN yielded[c][i] = i /\ results'[<<c, i>>] # "no"
                        ELSE i \in DOMAIN collection'[c] /\ yielded[c][i] = collection'[c][i]
  BY SamePlan DEF Iterated, iterVars
<1>1. /\ idx[c] = IF over[c] THEN 1 ELSE Len(yielded[c]) + 1
      /\ Len(yielded[c]) <= howCalled[c].n /\ (over[c] => Len(yielded[c]) = howCalled[c].n)
      /\ \A i \in DOMAIN yielded[c] :
            IF Ordered(c) THEN yielded[c][i] = i /\ results[<<c, i>>] # "no"
            ELSE i \in DOMAIN collection[c] /\ yielded[c][i] = collection[c][i]
  BY DEF Iterated
<1>2. \A i \in DOMAIN yielded[c] : <<c, i>> \in AllJobs
  <2> TAKE i \in DOMAIN yielded[c]
  <2>1. i \in 1..Len(yielded[c]) /\ Len(yielded[c]) \in Nat
    BY PoolLists
  <2>2. i \in 1..howCalled[c].n
    BY <1>1, <2>1, PlanType
  <2> QED BY <2>2 DEF AllJobs, JobsOf
<1> QED BY <1>1, <1>2

-----------------------------------------------------------------------------
\* A thread that is done with jobs leaves the others where they are.
LEMMA PlacesKept ==
    ASSUME OnePlaceEach, howCalled' = howCalled, UNCHANGED <<toPut, workq>>,
           \A w \in PoolWorkers : JobsIn(unit'[w]) \subseteq JobsIn(unit[w]) /\ OnceEach(unit'[w])
    PROVE  OnePlaceEach'
<1>1. /\ \A c \in PoolCalls : JobsOf(c)' = JobsOf(c) /\ \A s \in DOMAIN toPut[c] : InToPut(c, s)' = InToPut(c, s)
      /\ \A q \in DOMAIN workq : InQueue(q)' = InQueue(q)
      /\ \A w \in PoolWorkers : AtWorker(w)' \subseteq AtWorker(w)
  BY SamePlan DEF InToPut, InQueue, AtWorker
<1>2. \A c \in PoolCalls : \A s \in DOMAIN toPut'[c] :
          /\ OnceEach(toPut'[c][s]) /\ InToPut(c, s)' \subseteq JobsOf(c)'
          /\ \A t \in DOMAIN toPut'[c] : s # t => InToPut(c, s)' \cap InToPut(c, t)' = {}
          /\ \A q \in DOMAIN workq' : InToPut(c, s)' \cap InQueue(q)' = {}
          /\ \A w \in PoolWorkers : InToPut(c, s)' \cap AtWorker(w)' = {}
  BY <1>1 DEF OnePlaceEach
<1>3. \A q \in DOMAIN workq' :
          /\ OnceEach(workq'[q])
          /\ \A r \in DOMAIN workq' : q # r => InQueue(q)' \cap InQueue(r)' = {}
          /\ \A w \in PoolWorkers : InQueue(q)' \cap AtWorker(w)' = {}
  BY <1>1 DEF OnePlaceEach
<1>4. \A w \in PoolWorkers :
          /\ OnceEach(unit'[w])
          /\ \A v \in PoolWorkers : w # v => AtWorker(w)' \cap AtWorker(v)' = {}
  BY <1>1 DEF OnePlaceEach
<1> QED BY <1>2, <1>3, <1>4 DEF OnePlaceEach, OnceEach

\* Units that leave the queue, and sentinels that come.
QueueFrom(f, q) ==
    /\ OnceEach(workq'[q])
    /\ JobsIn(workq'[q]) \cap AllJobs = {} \/ (f[q] \in DOMAIN workq /\ workq'[q] = workq[f[q]])

LEMMA QueueKept ==
    ASSUME OnePlaceEach, NotRun, howCalled' = howCalled, NEW f,
           UNCHANGED <<toPut, unit, results, callPc, collection, outer, outerSets>>,
           \A w \in PoolWorkers : Runs(w)' = Runs(w),
           \A q \in DOMAIN workq' : QueueFrom(f, q),
           \A q, r \in DOMAIN workq' : q # r => f[q] # f[r]
    PROVE  OnePlaceEach' /\ NotRun'
<1>1. /\ \A c \in PoolCalls : JobsOf(c)' = JobsOf(c) /\ \A s \in DOMAIN toPut[c] : InToPut(c, s)' = InToPut(c, s)
      /\ \A w \in PoolWorkers : AtWorker(w)' = AtWorker(w)
      /\ \A q \in DOMAIN workq' : InQueue(q)' = {} \/ (f[q] \in DOMAIN workq /\ InQueue(q)' = InQueue(f[q]))
  BY SamePlan DEF InToPut, InQueue, AtWorker, QueueFrom
<1>2. \A c \in PoolCalls : \A s \in DOMAIN toPut'[c] :
          /\ OnceEach(toPut'[c][s]) /\ InToPut(c, s)' \subseteq JobsOf(c)'
          /\ \A t \in DOMAIN toPut'[c] : s # t => InToPut(c, s)' \cap InToPut(c, t)' = {}
          /\ \A q \in DOMAIN workq' : InToPut(c, s)' \cap InQueue(q)' = {}
          /\ \A w \in PoolWorkers : InToPut(c, s)' \cap AtWorker(w)' = {}
  BY <1>1 DEF OnePlaceEach
<1>3. \A q \in DOMAIN workq' :
          /\ OnceEach(workq'[q])
          /\ \A r \in DOMAIN workq' : q # r => InQueue(q)' \cap InQueue(r)' = {}
          /\ \A w \in PoolWorkers : InQueue(q)' \cap AtWorker(w)' = {}
  BY <1>1 DEF OnePlaceEach, QueueFrom
<1>4. \A w \in PoolWorkers :
          /\ OnceEach(unit'[w])
          /\ \A v \in PoolWorkers : w # v => AtWorker(w)' \cap AtWorker(v)' = {}
  BY <1>1 DEF OnePlaceEach
<1>5. OnePlaceEach'
  BY <1>2, <1>3, <1>4 DEF OnePlaceEach, OnceEach
<1>6. NotRun'
  <2>1. \A c \in PoolCalls : \A s \in DOMAIN toPut'[c] : \A j \in InToPut(c, s)' : results'[j] = "no"
    BY <1>1 DEF NotRun
  <2>2. \A q \in DOMAIN workq' : \A j \in InQueue(q)' : results'[j] = "no"
    BY <1>1 DEF NotRun
  <2>3. \A w \in PoolWorkers : \A i \in DOMAIN unit'[w] :
            results'[unit'[w][i]] = "no" <=> ~(i = 1 /\ Runs(w)')
    BY DEF NotRun
  <2>4. \A c \in PoolCalls : callPc'[c] \in {"no", "refused"} =>
          /\ \A q \in DOMAIN workq' : InQueue(q)' \cap JobsOf(c)' = {}
          /\ \A w \in PoolWorkers : AtWorker(w)' \cap JobsOf(c)' = {}
          /\ \A j \in JobsOf(c)' : results'[j] = "no"
          /\ collection'[c] = <<>> /\ outer'[c] = "no" /\ outerSets'[c] = 0
    BY <1>1 DEF NotRun
  <2> QED BY <2>1, <2>2, <2>3, <2>4 DEF NotRun
<1> QED BY <1>5, <1>6

\* Steps at which no thread has a result to tell of.
LEMMA NothingTold ==
    ASSUME howCalled' = howCalled, UNCHANGED <<results, collection, outer, outerSets>>,
           \A w \in PoolWorkers : /\ Runs(w) => unit'[w] = unit[w] /\ workerPc'[w] = workerPc[w]
                                  /\ Runs(w)' => unit'[w] = unit[w] /\ workerPc'[w] = workerPc[w]
    PROVE  /\ \A c \in PoolCalls : Unnotified(c)' = Unnotified(c)
           /\ ToldOnce => ToldOnce'
           /\ Counted /\ UNCHANGED <<remaining, callPc>> => Counted'
<1>1. \A w \in PoolWorkers, c \in PoolCalls : Telling(w, c)' <=> Telling(w, c)
  BY DEF Telling, CallOf, Runs
<1>2. \A c \in PoolCalls : Told(c)' <=> Told(c)
  BY <1>1 DEF Told
<1>3. \A c \in PoolCalls : Unnotified(c)' = Unnotified(c)
  <2> TAKE c \in PoolCalls
  <2>1. \A j \in JobsOf(c) : (\E w \in PoolWorkers : workerPc'[w] = "notify" /\ Head(unit'[w]) = j)
                             <=> \E w \in PoolWorkers : workerPc[w] = "notify" /\ Head(unit[w]) = j
    BY DEF Runs
  <2> QED BY <2>1, SamePlan DEF Unnotified
<1>4. ASSUME ToldOnce PROVE ToldOnce'
  BY <1>1, <1>2, <1>3, <1>4, SamePlan DEF ToldOnce
<1>5. ASSUME Counted, UNCHANGED <<remaining, callPc>> PROVE Counted'
  <2>1. ASSUME NEW c \in PoolCalls
        PROVE  IF Ordered(c)' THEN callPc'[c] \notin {"no", "refused"} => remaining'[c] = Cardinality(Unnotified(c)')
               ELSE /\ \A i \in DOMAIN collection'[c] : <<c, collection'[c][i]>> \in JobsOf(c)' \ Unnotified(c)'
                    /\ OnceEach(collection'[c])
    BY <1>3, <1>5, SamePlan DEF Counted
  <2> QED BY <2>1 DEF Counted, OnceEach
<1> QED BY <1>3, <1>4, <1>5

-----------------------------------------------------------------------------
LEMMA CallKeeps ==
    ASSUME PoolInv, NEW c \in PoolCalls, Call(c)
    PROVE  PoolInv'
<1> USE DEF PoolInv
<1>1. /\ callPc[c] = "no" /\ howCalled' = howCalled
      /\ UNCHANGED <<workq, unit, workerPc, results, collection, outer, outerSets>>
      /\ UNCHANGED iterVars /\ UNCHANGED <<idx, yielded, over, timeouts>>
  BY DEF Call, queueVars, workVars, iterVars
<1>2. PICK chunks \in Seq(Seq(AllJobs)) : /\ chunks = Chunks(c) /\ chunks # <<>>
           /\ \A s \in DOMAIN chunks :
                /\ OnceEach(chunks[s]) /\ JobsIn(chunks[s]) \subseteq JobsOf(c)
                /\ \A t \in DOMAIN chunks : s # t => JobsIn(chunks[s]) \cap JobsIn(chunks[t]) = {}
  BY ChunksType
<1>3. \/ /\ toPut' = [toPut EXCEPT ![c] = chunks] /\ remaining' = [remaining EXCEPT ![c] = howCalled[c].n]
         /\ callPc' = [callPc EXCEPT ![c] = "putting"]
      \/ UNCHANGED <<toPut, remaining>> /\ callPc' = [callPc EXCEPT ![c] = "refused"]
  BY <1>2 DEF Call
<1>4. PoolType'
  <2>0. howCalled[c].n \in Nat /\ toPut[c] = <<>>
    BY <1>1, PlanType DEF PoolType
  <2>1. toPut' \in [PoolCalls -> Seq(Seq(AllJobs))] /\ callPc' \in [PoolCalls -> {"no", "refused", "putting", "made"}]
    <3>1. CASE toPut' = [toPut EXCEPT ![c] = chunks] /\ callPc' = [callPc EXCEPT ![c] = "putting"]
      <4>1. toPut' \in [PoolCalls -> Seq(Seq(AllJobs))]
        BY <1>2, <3>1 DEF PoolType
      <4> QED BY <3>1, <4>1 DEF PoolType
    <3>2. CASE UNCHANGED toPut /\ callPc' = [callPc EXCEPT ![c] = "refused"]
      BY <3>2 DEF PoolType
    <3> QED BY <1>3, <3>1, <3>2
  <2>3. \A d \in PoolCalls : callPc'[d] = "putting" <=> toPut'[d] # <<>>
    <3>1. /\ \A d \in PoolCalls : d # c => callPc'[d] = callPc[d] /\ toPut'[d] = toPut[d]
          /\ (callPc'[c] = "putting" /\ toPut'[c] = chunks) \/ (callPc'[c] = "refused" /\ toPut'[c] = <<>>)
      BY <1>3, <2>0 DEF PoolType
    <3>2. \A d \in PoolCalls : callPc[d] = "putting" <=> toPut[d] # <<>>
      BY DEF PoolType
    <3> QED BY <3>1, <3>2, <1>2
  <2>2. remaining' \in [PoolCalls -> Int]
    BY SMTT(30), <1>3, <2>0 DEF PoolType
  <2> QED BY <1>1, <2>1, <2>2, <2>3, SamePlan DEF PoolType
<1>5. /\ \A d \in PoolCalls : JobsOf(d)' = JobsOf(d) /\ Ordered(d)' = Ordered(d)
      /\ \A q \in DOMAIN workq : InQueue(q)' = InQueue(q)
      /\ \A w \in PoolWorkers : AtWorker(w)' = AtWorker(w) /\ Runs(w)' = Runs(w)
  BY <1>1, SamePlan DEF InQueue, AtWorker, Runs
<1>6. \A d \in PoolCalls : \/ toPut'[d] = toPut[d] /\ (callPc'[d] = callPc[d] \/ d = c)
                              /\ \A s \in DOMAIN toPut'[d] : InToPut(d, s)' = InToPut(d, s)
                           \/ d = c /\ toPut'[c] = chunks /\ callPc'[c] = "putting"
                              /\ \A s \in DOMAIN toPut'[c] : InToPut(c, s)' = JobsIn(chunks[s])
  BY <1>1, <1>3 DEF PoolType, InToPut
<1>7. /\ \A q \in DOMAIN workq : InQueue(q) \cap JobsOf(c) = {}
      /\ \A w \in PoolWorkers : AtWorker(w) \cap JobsOf(c) = {}
      /\ \A j \in JobsOf(c) : results[j] = "no"
      /\ collection[c] = <<>> /\ outer[c] = "no" /\ outerSets[c] = 0
  BY <1>1 DEF NotRun
<1>8. OnePlaceEach'
  <2>1. \A d \in PoolCalls : \A s \in DOMAIN toPut'[d] :
          /\ OnceEach(toPut'[d][s]) /\ InToPut(d, s)' \subseteq JobsOf(d)'
          /\ \A t \in DOMAIN toPut'[d] : s # t => InToPut(d, s)' \cap InToPut(d, t)' = {}
          /\ \A q \in DOMAIN workq' : InToPut(d, s)' \cap InQueue(q)' = {}
          /\ \A w \in PoolWorkers : InToPut(d, s)' \cap AtWorker(w)' = {}
    <3> TAKE d \in PoolCalls
    <3>1. CASE /\ toPut'[d] = toPut[d]
               /\ \A s \in DOMAIN toPut'[d] : InToPut(d, s)' = InToPut(d, s)
      BY <3>1, <1>1, <1>5 DEF OnePlaceEach
    <3>2. CASE d = c /\ toPut'[c] = chunks /\ \A s \in DOMAIN toPut'[c] : InToPut(c, s)' = JobsIn(chunks[s])
      BY <3>2, <1>1, <1>2, <1>5, <1>7
    <3> QED BY <1>6, <3>1, <3>2
  <2>2. \A q \in DOMAIN workq' :
          /\ OnceEach(workq'[q])
          /\ \A r \in DOMAIN workq' : q # r => InQueue(q)' \cap InQueue(r)' = {}
          /\ \A w \in PoolWorkers : InQueue(q)' \cap AtWorker(w)' = {}
    BY <1>1, <1>5 DEF OnePlaceEach
  <2>3. \A w \in PoolWorkers :
          /\ OnceEach(unit'[w])
          /\ \A v \in PoolWorkers : w # v => AtWorker(w)' \cap AtWorker(v)' = {}
    BY <1>1, <1>5 DEF OnePlaceEach
  <2> QED BY <2>1, <2>2, <2>3 DEF OnePlaceEach, OnceEach
<1>9. NotRun'
  <2>1. \A d \in PoolCalls : \A s \in DOMAIN toPut'[d] : \A j \in InToPut(d, s)' : results'[j] = "no"
    BY <1>1, <1>2, <1>6, <1>7 DEF NotRun
  <2>2. \A q \in DOMAIN workq' : \A j \in InQueue(q)' : results'[j] = "no"
    BY <1>1, <1>5 DEF NotRun
  <2>3. \A w \in PoolWorkers : \A i \in DOMAIN unit'[w] :
            results'[unit'[w][i]] = "no" <=> ~(i = 1 /\ Runs(w)')
    BY <1>1, <1>5 DEF NotRun
  <2>4. \A d \in PoolCalls : callPc'[d] \in {"no", "refused"} =>
          /\ \A q \in DOMAIN workq' : InQueue(q)' \cap JobsOf(d)' = {}
          /\ \A w \in PoolWorkers : AtWorker(w)' \cap JobsOf(d)' = {}
          /\ \A j \in JobsOf(d)' : results'[j] = "no"
          /\ collection'[d] = <<>> /\ outer'[d] = "no" /\ outerSets'[d] = 0
    BY <1>1, <1>5, <1>6, <1>7 DEF NotRun
  <2> QED BY <2>1, <2>2, <2>3, <2>4 DEF NotRun
<1>10. (\A d \in PoolCalls : Unnotified(d)' = Unnotified(d)) /\ ToldOnce'
  BY <1>1, NothingTold
<1>11. Counted'
  <2>1. ASSUME NEW d \in PoolCalls
        PROVE  IF Ordered(d)' THEN callPc'[d] \notin {"no", "refused"} => remaining'[d] = Cardinality(Unnotified(d)')
               ELSE /\ \A i \in DOMAIN collection'[d] : <<d, collection'[d][i]>> \in JobsOf(d)' \ Unnotified(d)'
                    /\ OnceEach(collection'[d])
    <3>1. CASE d # c
      <4>1. callPc'[d] = callPc[d] /\ remaining'[d] = remaining[d]
        BY <1>3, <3>1 DEF PoolType
      <4> QED BY <1>1, <1>5, <1>10, <4>1 DEF Counted
    <3>2. CASE d = c
      <4>1. Unnotified(c) = JobsOf(c)
        BY <1>7 DEF Unnotified
      <4>2. callPc'[c] \notin {"no", "refused"} => remaining'[c] = howCalled[c].n
        BY <1>3 DEF PoolType
      <4> QED BY <1>1, <1>5, <1>10, <3>2, <4>1, <4>2, CountOfJobs DEF Counted
    <3> QED BY <3>1, <3>2
  <2> QED BY <2>1 DEF Counted, OnceEach
<1>12. Iterated'
  BY <1>1, IteratedKept
<1> QED BY <1>4, <1>8, <1>9, <1>10, <1>11, <1>12

LEMMA QueueUnits ==
    ASSUME PoolType, NEW u \in Seq(AllJobs)
    PROVE  /\ Append(workq, u) \in Seq(Seq(AllJobs) \cup {Sentinel})
           /\ DOMAIN Append(workq, u) = DOMAIN workq \cup {Len(workq) + 1} /\ Len(workq) + 1 \notin DOMAIN workq
           /\ Append(workq, u)[Len(workq) + 1] = u
           /\ \A q \in DOMAIN workq : Append(workq, u)[q] = workq[q]
<1> DEFINE S == Seq(AllJobs) \cup {Sentinel}
<1>1. workq \in Seq(S) /\ u \in S
  BY DEF PoolType
<1> HIDE DEF S
<1>2. /\ Append(workq, u) \in Seq(S)
      /\ DOMAIN Append(workq, u) = DOMAIN workq \cup {Len(workq) + 1} /\ Len(workq) + 1 \notin DOMAIN workq
      /\ Append(workq, u)[Len(workq) + 1] = u
      /\ \A q \in DOMAIN workq : Append(workq, u)[q] = workq[q]
  BY <1>1, OneMore
<1> QED BY <1>2 DEF S

LEMMA PutUnitKeeps ==
    ASSUME PoolInv, NEW c \in PoolCalls, PutUnit(c)
    PROVE  PoolInv'
<1> USE DEF PoolInv
<1>1. /\ callPc[c] = "putting" /\ howCalled' = howCalled
      /\ UNCHANGED <<unit, workerPc, results, remaining, collection, outer, outerSets>>
      /\ UNCHANGED iterVars /\ UNCHANGED <<idx, yielded, over, timeouts>>
  BY DEF PutUnit, workVars, resultVars, iterVars
<1>2. PICK p \in Seq(Seq(AllJobs)) : p = toPut[c] /\ p # <<>>
  BY <1>1 DEF PoolType
<1>3. PICK u, leftOver : u = Head(p) /\ leftOver = Tail(p)
  OBVIOUS
<1>4. /\ leftOver \in Seq(Seq(AllJobs)) /\ u \in Seq(AllJobs) /\ 1 \in DOMAIN p /\ p[1] = u
      /\ \A i \in DOMAIN leftOver : i + 1 \in DOMAIN p /\ i + 1 # 1 /\ leftOver[i] = p[i + 1]
      /\ DOMAIN leftOver = 1..(Len(p) - 1) /\ (leftOver = <<>> <=> Len(p) = 1) /\ Len(p) \in Nat
  <2> DEFINE S == Seq(AllJobs)
  <2>1. p \in Seq(S) /\ p # <<>>
    BY <1>2
  <2> HIDE DEF S
  <2>2. /\ leftOver \in Seq(S) /\ u \in S /\ 1 \in DOMAIN p /\ p[1] = u
        /\ \A i \in DOMAIN leftOver : i + 1 \in DOMAIN p /\ i + 1 # 1 /\ leftOver[i] = p[i + 1]
        /\ DOMAIN leftOver = 1..(Len(p) - 1) /\ (leftOver = <<>> <=> Len(p) = 1) /\ Len(p) \in Nat
    BY <1>3, <2>1, RestOfUnit
  <2> QED BY <2>2 DEF S
<1>5. PICK e : e = Len(workq) + 1
  OBVIOUS
<1>6. /\ workq' = Append(workq, u) /\ toPut' = [toPut EXCEPT ![c] = leftOver]
      /\ callPc' = IF Len(p) = 1 THEN [callPc EXCEPT ![c] = "made"] ELSE callPc
  BY <1>2, <1>3 DEF PutUnit
<1>7. /\ workq' \in Seq(Seq(AllJobs) \cup {Sentinel}) /\ DOMAIN workq' = DOMAIN workq \cup {e} /\ e \notin DOMAIN workq
      /\ workq'[e] = u /\ \A q \in DOMAIN workq : workq'[q] = workq[q]
  BY <1>4, <1>5, <1>6, QueueUnits
<1>8. /\ \A d \in PoolCalls : JobsOf(d)' = JobsOf(d)
      /\ \A q \in DOMAIN workq : InQueue(q)' = InQueue(q)
      /\ InQueue(e)' = InToPut(c, 1)
      /\ \A w \in PoolWorkers : AtWorker(w)' = AtWorker(w) /\ Runs(w)' = Runs(w)
  <2>1. InQueue(e)' = JobsIn(u) \cap AllJobs /\ InToPut(c, 1) = JobsIn(u)
    BY <1>1, <1>2, <1>4, <1>7, SamePlan DEF InQueue, InToPut
  <2>2. JobsIn(u) \subseteq AllJobs
    BY <1>4, PoolLists
  <2> QED BY <1>1, <1>7, <2>1, <2>2, SamePlan DEF InQueue, AtWorker, Runs
<1>9. /\ \A d \in PoolCalls : d # c => toPut'[d] = toPut[d] /\ callPc'[d] = callPc[d]
                                       /\ \A s \in DOMAIN toPut[d] : InToPut(d, s)' = InToPut(d, s)
      /\ toPut'[c] = leftOver
      /\ \A s \in DOMAIN leftOver : s + 1 \in DOMAIN toPut[c] /\ s + 1 # 1 /\ InToPut(c, s)' = InToPut(c, s + 1) /\ leftOver[s] = toPut[c][s + 1]
      /\ 1 \in DOMAIN toPut[c] /\ toPut[c][1] = u
      /\ callPc'[c] \in {"putting", "made"} /\ (callPc'[c] = "putting" <=> leftOver # <<>>)
  BY <1>1, <1>2, <1>4, <1>6 DEF PoolType, InToPut
<1>10. \A s, t \in DOMAIN leftOver : s # t => s + 1 # t + 1
  BY <1>4
<1>11. PoolType'
  <2>1. toPut' \in [PoolCalls -> Seq(Seq(AllJobs))] /\ callPc' \in [PoolCalls -> {"no", "refused", "putting", "made"}]
    BY <1>4, <1>6 DEF PoolType
  <2>2. \A d \in PoolCalls : callPc'[d] = "putting" <=> toPut'[d] # <<>>
    BY ZenonT(30), <1>9 DEF PoolType
  <2> QED BY <1>1, <1>7, <2>1, <2>2, SamePlan DEF PoolType, Sentinel
<1>12. OnePlaceEach'
  <2>1. \A d \in PoolCalls : \A s \in DOMAIN toPut'[d] :
          /\ OnceEach(toPut'[d][s]) /\ InToPut(d, s)' \subseteq JobsOf(d)'
          /\ \A t \in DOMAIN toPut'[d] : s # t => InToPut(d, s)' \cap InToPut(d, t)' = {}
          /\ \A w \in PoolWorkers : InToPut(d, s)' \cap AtWorker(w)' = {}
    <3> TAKE d \in PoolCalls
    <3>1. CASE d # c
      BY <3>1, <1>8, <1>9 DEF OnePlaceEach
    <3>2. CASE d = c
      BY <3>2, <1>8, <1>9, <1>10 DEF OnePlaceEach
    <3> QED BY <3>1, <3>2
  <2>2. \A d \in PoolCalls : \A s \in DOMAIN toPut'[d] : \A q \in DOMAIN workq' : InToPut(d, s)' \cap InQueue(q)' = {}
    <3> TAKE d \in PoolCalls
    <3>1. CASE d # c
      <4>1. \A s \in DOMAIN toPut[d] : InToPut(d, s) \cap InToPut(c, 1) = {}
        BY <1>9, <3>1, PoolLists DEF OnePlaceEach
      <4> QED BY <3>1, <4>1, <1>7, <1>8, <1>9 DEF OnePlaceEach
    <3>2. CASE d = c
      BY <3>2, <1>7, <1>8, <1>9 DEF OnePlaceEach
    <3> QED BY <3>1, <3>2
  <2>3. \A q \in DOMAIN workq' :
          /\ OnceEach(workq'[q])
          /\ \A w \in PoolWorkers : InQueue(q)' \cap AtWorker(w)' = {}
    BY <1>7, <1>8, <1>9 DEF OnePlaceEach
  <2>4. \A q, r \in DOMAIN workq' : q # r => InQueue(q)' \cap InQueue(r)' = {}
    BY <1>7, <1>8, <1>9 DEF OnePlaceEach
  <2>5. \A w \in PoolWorkers :
          /\ OnceEach(unit'[w])
          /\ \A v \in PoolWorkers : w # v => AtWorker(w)' \cap AtWorker(v)' = {}
    BY <1>1, <1>8 DEF OnePlaceEach
  <2> QED BY <2>1, <2>2, <2>3, <2>4, <2>5 DEF OnePlaceEach, OnceEach
<1>13. NotRun'
  <2>1. \A d \in PoolCalls : \A s \in DOMAIN toPut'[d] : \A j \in InToPut(d, s)' : results'[j] = "no"
    <3> TAKE d \in PoolCalls
    <3>1. CASE d # c
      BY <3>1, <1>1, <1>9 DEF NotRun
    <3>2. CASE d = c
      BY <3>2, <1>1, <1>9 DEF NotRun
    <3> QED BY <3>1, <3>2
  <2>2. \A q \in DOMAIN workq' : \A j \in InQueue(q)' : results'[j] = "no"
    BY <1>1, <1>7, <1>8, <1>9 DEF NotRun
  <2>3. \A w \in PoolWorkers : \A i \in DOMAIN unit'[w] :
            results'[unit'[w][i]] = "no" <=> ~(i = 1 /\ Runs(w)')
    BY <1>1, <1>8 DEF NotRun
  <2>4. \A d \in PoolCalls : callPc'[d] \in {"no", "refused"} =>
          /\ \A q \in DOMAIN workq' : InQueue(q)' \cap JobsOf(d)' = {}
          /\ \A w \in PoolWorkers : AtWorker(w)' \cap JobsOf(d)' = {}
          /\ \A j \in JobsOf(d)' : results'[j] = "no"
          /\ collection'[d] = <<>> /\ outer'[d] = "no" /\ outerSets'[d] = 0
    <3> SUFFICES ASSUME NEW d \in PoolCalls, callPc'[d] \in {"no", "refused"}
                 PROVE  /\ \A q \in DOMAIN workq' : InQueue(q)' \cap JobsOf(d)' = {}
                        /\ \A w \in PoolWorkers : AtWorker(w)' \cap JobsOf(d)' = {}
                        /\ \A j \in JobsOf(d)' : results'[j] = "no"
                        /\ collection'[d] = <<>> /\ outer'[d] = "no" /\ outerSets'[d] = 0
      OBVIOUS
    <3>1. d # c /\ callPc[d] \in {"no", "refused"}
      BY <1>9
    <3>2. InToPut(c, 1) \cap JobsOf(d) = {}
      BY <1>9, <3>1, PoolLists DEF OnePlaceEach
    <3> QED BY <1>1, <1>7, <1>8, <3>1, <3>2 DEF NotRun
  <2> QED BY <2>1, <2>2, <2>3, <2>4 DEF NotRun
<1>14. (\A d \in PoolCalls : Unnotified(d)' = Unnotified(d)) /\ ToldOnce'
  BY <1>1, NothingTold
<1>15. Counted'
  <2>1. ASSUME NEW d \in PoolCalls
        PROVE  IF Ordered(d)' THEN callPc'[d] \notin {"no", "refused"} => remaining'[d] = Cardinality(Unnotified(d)')
               ELSE /\ \A i \in DOMAIN collection'[d] : <<d, collection'[d][i]>> \in JobsOf(d)' \ Unnotified(d)'
                    /\ OnceEach(collection'[d])
    <3>1. callPc'[d] \notin {"no", "refused"} => callPc[d] \notin {"no", "refused"}
      BY <1>1, <1>9
    <3> QED BY <1>1, <1>8, <1>14, <3>1, SamePlan DEF Counted
  <2> QED BY <2>1 DEF Counted, OnceEach
<1>16. Iterated'
  BY <1>1, IteratedKept
<1> QED BY <1>11, <1>12, <1>13, <1>14, <1>15, <1>16

\* What is taken off the queue, by a thread or by terminate().
LEMMA QueueShorter ==
    ASSUME PoolType, workq # <<>>, workq' = Tail(workq)
    PROVE  /\ workq' \in Seq(Seq(AllJobs) \cup {Sentinel}) /\ Head(workq) \in Seq(AllJobs) \cup {Sentinel}
           /\ 1 \in DOMAIN workq /\ workq[1] = Head(workq)
           /\ DOMAIN workq' = 1..(Len(workq) - 1)
           /\ \A q \in DOMAIN workq' : q + 1 \in DOMAIN workq /\ q + 1 # 1 /\ workq'[q] = workq[q + 1]
           /\ \A q, r \in DOMAIN workq' : q # r => q + 1 # r + 1
<1> DEFINE S == Seq(AllJobs) \cup {Sentinel}
<1>1. workq \in Seq(S)
  BY DEF PoolType
<1> HIDE DEF S
<1>2. /\ workq' \in Seq(S) /\ Head(workq) \in S
      /\ 1 \in DOMAIN workq /\ workq[1] = Head(workq)
      /\ DOMAIN workq' = 1..(Len(workq) - 1) /\ Len(workq) \in Nat
      /\ \A q \in DOMAIN workq' : q + 1 \in DOMAIN workq /\ q + 1 # 1 /\ workq'[q] = workq[q + 1]
  BY <1>1, RestOfUnit
<1>3. \A q, r \in DOMAIN workq' : q # r => q + 1 # r + 1
  BY <1>2
<1> QED BY <1>2, <1>3 DEF S

LEMMA QueueShorterKeeps ==
    ASSUME PoolType, OnePlaceEach, NotRun, workq # <<>>, workq' = Tail(workq), howCalled' = howCalled,
           UNCHANGED <<toPut, unit, results, callPc, collection, outer, outerSets>>,
           \A w \in PoolWorkers : Runs(w)' = Runs(w)
    PROVE  OnePlaceEach' /\ NotRun'
<1>1. PICK f : f = [q \in DOMAIN workq' |-> q + 1]
  OBVIOUS
<1>2. \A q \in DOMAIN workq' : QueueFrom(f, q)
  BY <1>1, QueueShorter DEF QueueFrom, OnePlaceEach
<1>3. \A q, r \in DOMAIN workq' : q # r => f[q] # f[r]
  BY <1>1, QueueShorter
<1> QED BY <1>2, <1>3, QueueKept

LEMMA GetUnitKeeps ==
    ASSUME PoolInv, NEW w \in PoolWorkers, GetUnit(w)
    PROVE  PoolInv'
<1> USE DEF PoolInv
<1>1. /\ workerPc[w] = "get" /\ workq # <<>> /\ workq' = Tail(workq) /\ howCalled' = howCalled
      /\ UNCHANGED <<toPut, callPc, results, remaining, collection, outer, outerSets>>
      /\ UNCHANGED iterVars /\ UNCHANGED <<idx, yielded, over, timeouts>>
  BY DEF GetUnit, submitVars, resultVars, iterVars
<1>2. Sentinel \notin Seq(AllJobs)
  <2>1. <<"QUIT", 0>> \notin AllJobs
    BY PlanType DEF AllJobs, JobsOf
  <2>2. Sentinel[1] = <<"QUIT", 0>> /\ 1 \in DOMAIN Sentinel
    BY DEF Sentinel
  <2>3. \A u \in Seq(AllJobs) : \A i \in DOMAIN u : u[i] \in AllJobs
    OBVIOUS
  <2> QED BY <2>1, <2>2, <2>3
<1>3. PICK u : u = Head(workq)
  OBVIOUS
<1>4. /\ workq' \in Seq(Seq(AllJobs) \cup {Sentinel}) /\ u \in Seq(AllJobs) \cup {Sentinel}
      /\ 1 \in DOMAIN workq /\ workq[1] = u
      /\ \A q \in DOMAIN workq' : q + 1 \in DOMAIN workq /\ q + 1 # 1 /\ workq'[q] = workq[q + 1]
      /\ \A q, r \in DOMAIN workq' : q # r => q + 1 # r + 1
  BY <1>1, <1>3, QueueShorter
<1>5. unit[w] = <<>>
  BY <1>1 DEF PoolType
<1>6. Iterated'
  BY <1>1, IteratedKept
<1>7. CASE u = Sentinel
  <2>1. unit' = unit /\ workerPc' = [workerPc EXCEPT ![w] = "ended"]
    BY <1>3, <1>7 DEF GetUnit, Goto6
  <2>2. \A v \in PoolWorkers : /\ workerPc'[v] = IF v = w THEN "ended" ELSE workerPc[v]
                               /\ Runs(v)' = Runs(v)
    BY <1>1, <2>1 DEF PoolType, Runs
  <2>3. OnePlaceEach' /\ NotRun'
    BY <1>1, <2>1, <2>2, QueueShorterKeeps
  <2>4. ToldOnce' /\ Counted'
    <3>1. \A v \in PoolWorkers : /\ Runs(v) => unit'[v] = unit[v] /\ workerPc'[v] = workerPc[v]
                                 /\ Runs(v)' => unit'[v] = unit[v] /\ workerPc'[v] = workerPc[v]
      BY <1>1, <2>1, <2>2 DEF Runs
    <3> QED BY <1>1, <3>1, NothingTold
  <2>5. PoolType'
    <3>1. workerPc' \in [PoolWorkers -> {"get", "job", "notify", "tell", "ended"}]
      BY <2>1 DEF PoolType
    <3>2. \A v \in PoolWorkers : workerPc'[v] \in {"get", "ended"} <=> unit'[v] = <<>>
      BY <1>5, <2>1, <2>2 DEF PoolType
    <3> QED BY <1>1, <1>4, <2>1, <3>1, <3>2, SamePlan DEF PoolType, Sentinel
  <2> QED BY <1>6, <2>3, <2>4, <2>5
<1>8. CASE u # Sentinel
  <2>1. /\ unit' = [unit EXCEPT ![w] = u] /\ u \in Seq(AllJobs)
        /\ workerPc' = [workerPc EXCEPT ![w] = IF u = <<>> THEN "get" ELSE "job"]
    BY <1>3, <1>4, <1>8 DEF GetUnit, Goto6
  <2>2. /\ \A v \in PoolWorkers : v # w => unit'[v] = unit[v] /\ workerPc'[v] = workerPc[v]
        /\ unit'[w] = u /\ workerPc'[w] = IF u = <<>> THEN "get" ELSE "job"
        /\ ~Runs(w) /\ ~Runs(w)'
    BY <1>1, <2>1 DEF PoolType, Runs
  <2>3. PoolType'
    <3>1. unit' \in [PoolWorkers -> Seq(AllJobs)] /\ workerPc' \in [PoolWorkers -> {"get", "job", "notify", "tell", "ended"}]
      BY <2>1 DEF PoolType
    <3>2. \A v \in PoolWorkers : workerPc'[v] \in {"get", "ended"} <=> unit'[v] = <<>>
      BY <2>2 DEF PoolType
    <3> QED BY <1>1, <1>4, <3>1, <3>2, SamePlan DEF PoolType, Sentinel
  <2>4. /\ \A c \in PoolCalls : JobsOf(c)' = JobsOf(c) /\ \A s \in DOMAIN toPut[c] : InToPut(c, s)' = InToPut(c, s)
        /\ \A v \in PoolWorkers : v # w => AtWorker(v)' = AtWorker(v)
        /\ AtWorker(w)' = InQueue(1)
        /\ \A q \in DOMAIN workq' : InQueue(q)' = InQueue(q + 1)
    <3>1. AtWorker(w)' = JobsIn(u) /\ InQueue(1) = JobsIn(u) \cap AllJobs
      BY <1>4, <2>2 DEF AtWorker, InQueue
    <3>2. JobsIn(u) \subseteq AllJobs
      BY <2>1, PoolLists
    <3>3. \A q \in DOMAIN workq' : InQueue(q)' = InQueue(q + 1)
      BY <1>1, <1>4, SamePlan DEF InQueue
    <3>4. \A v \in PoolWorkers : v # w => AtWorker(v)' = AtWorker(v)
      BY <2>2 DEF AtWorker
    <3>5. \A c \in PoolCalls : JobsOf(c)' = JobsOf(c) /\ \A s \in DOMAIN toPut[c] : InToPut(c, s)' = InToPut(c, s)
      BY <1>1, SamePlan DEF InToPut
    <3> QED BY <3>1, <3>2, <3>3, <3>4, <3>5
  <2>5. OnePlaceEach'
    <3>1. \A c \in PoolCalls : \A s \in DOMAIN toPut'[c] :
          /\ OnceEach(toPut'[c][s]) /\ InToPut(c, s)' \subseteq JobsOf(c)'
          /\ \A t \in DOMAIN toPut'[c] : s # t => InToPut(c, s)' \cap InToPut(c, t)' = {}
          /\ \A q \in DOMAIN workq' : InToPut(c, s)' \cap InQueue(q)' = {}
          /\ \A v \in PoolWorkers : InToPut(c, s)' \cap AtWorker(v)' = {}
      BY <1>1, <1>4, <2>4 DEF OnePlaceEach
    <3>2. \A q \in DOMAIN workq' :
          /\ OnceEach(workq'[q])
          /\ \A r \in DOMAIN workq' : q # r => InQueue(q)' \cap InQueue(r)' = {}
          /\ \A v \in PoolWorkers : InQueue(q)' \cap AtWorker(v)' = {}
      BY <1>4, <2>4 DEF OnePlaceEach
    <3>3. \A v \in PoolWorkers :
          /\ OnceEach(unit'[v])
          /\ \A x \in PoolWorkers : v # x => AtWorker(v)' \cap AtWorker(x)' = {}
      BY <1>4, <2>2, <2>4 DEF OnePlaceEach
    <3> QED BY <3>1, <3>2, <3>3 DEF OnePlaceEach, OnceEach
  <2>6. NotRun'
    <3>1. \A c \in PoolCalls : \A s \in DOMAIN toPut'[c] : \A j \in InToPut(c, s)' : results'[j] = "no"
      BY <1>1, <2>4 DEF NotRun
    <3>2. \A q \in DOMAIN workq' : \A j \in InQueue(q)' : results'[j] = "no"
      BY <1>1, <1>4, <2>4 DEF NotRun
    <3>3. \A v \in PoolWorkers : \A i \in DOMAIN unit'[v] :
            results'[unit'[v][i]] = "no" <=> ~(i = 1 /\ Runs(v)')
      <4> TAKE v \in PoolWorkers
      <4>1. CASE v # w
        BY <4>1, <1>1, <2>2 DEF NotRun, Runs
      <4>2. CASE v = w
        <5>1. \A i \in DOMAIN u : u[i] \in AtWorker(w)'
          BY <2>2 DEF AtWorker, JobsIn
        <5>2. \A i \in DOMAIN u : results[u[i]] = "no"
          BY <5>1, <1>4, <2>4 DEF NotRun
        <5> QED BY <4>2, <5>2, <1>1, <2>2
      <4> QED BY <4>1, <4>2
    <3>4. \A c \in PoolCalls : callPc'[c] \in {"no", "refused"} =>
          /\ \A q \in DOMAIN workq' : InQueue(q)' \cap JobsOf(c)' = {}
          /\ \A v \in PoolWorkers : AtWorker(v)' \cap JobsOf(c)' = {}
          /\ \A j \in JobsOf(c)' : results'[j] = "no"
          /\ collection'[c] = <<>> /\ outer'[c] = "no" /\ outerSets'[c] = 0
      BY <1>1, <1>4, <2>4 DEF NotRun
    <3> QED BY <3>1, <3>2, <3>3, <3>4 DEF NotRun
  <2>7. ToldOnce' /\ Counted'
    <3>1. \A v \in PoolWorkers : /\ Runs(v) => unit'[v] = unit[v] /\ workerPc'[v] = workerPc[v]
                                 /\ Runs(v)' => unit'[v] = unit[v] /\ workerPc'[v] = workerPc[v]
      BY <2>2
    <3> QED BY <1>1, <3>1, NothingTold
  <2> QED BY <1>6, <2>3, <2>5, <2>6, <2>7
<1> QED BY <1>7, <1>8

\* A thread works on the first job it has, which no other has.
LEMMA AtWork ==
    ASSUME PoolInv, NEW w \in PoolWorkers, workerPc[w] \in {"job", "notify", "tell"}
    PROVE  \E u \in Seq(AllJobs), c \in PoolCalls, i \in Nat :
              /\ u = unit[w] /\ u # <<>> /\ 1 \in DOMAIN u /\ u[1] = <<c, i>> /\ Head(u) = <<c, i>>
              /\ <<c, i>> \in JobsOf(c) /\ CallOf(w) = c /\ <<c, i>> \in AtWorker(w)
              /\ callPc[c] \notin {"no", "refused"}
              /\ results[<<c, i>>] = "no" <=> ~Runs(w)
              /\ \A v \in PoolWorkers : v # w => <<c, i>> \notin AtWorker(v)
<1> USE DEF PoolInv
<1>1. PICK u \in Seq(AllJobs) : u = unit[w] /\ u # <<>>
  BY DEF PoolType
<1>2. /\ 1 \in DOMAIN u /\ u[1] = Head(u) /\ Head(u) \in AllJobs /\ Head(u) \in AtWorker(w)
  BY <1>1, RestOfUnit DEF AtWorker
<1>3. PICK c \in PoolCalls : Head(u) \in JobsOf(c)
  BY <1>2 DEF AllJobs
<1>4. PICK i \in 1..howCalled[c].n : Head(u) = <<c, i>>
  BY <1>3 DEF JobsOf
<1>5. i \in Nat
  BY <1>4, PlanType
<1>6. CallOf(w) = c
  BY <1>1, <1>4 DEF CallOf
<1>7. callPc[c] \notin {"no", "refused"}
  BY <1>2, <1>3 DEF NotRun
<1>8. results[<<c, i>>] = "no" <=> ~Runs(w)
  BY <1>1, <1>2, <1>4 DEF NotRun
<1>9. \A v \in PoolWorkers : v # w => <<c, i>> \notin AtWorker(v)
  BY <1>2, <1>4 DEF OnePlaceEach
<1> QED BY <1>1, <1>2, <1>3, <1>4, <1>5, <1>6, <1>7, <1>8, <1>9

\* When a thread goes to the next job, or to the queue.
LEMMA JobDoneKeeps ==
    ASSUME PoolInv, NEW w \in PoolWorkers, workerPc[w] \in {"job", "notify", "tell"}, JobDone(w)
    PROVE  /\ unit'[w] = Tail(unit[w])
           /\ \A v \in PoolWorkers : v # w => unit'[v] = unit[v] /\ workerPc'[v] = workerPc[v]
           /\ workerPc'[w] = IF Tail(unit[w]) = <<>> THEN "get" ELSE "job"
           /\ workerPc' \in [PoolWorkers -> {"get", "job", "notify", "tell", "ended"}]
           /\ unit' \in [PoolWorkers -> Seq(AllJobs)]
           /\ Head(unit[w]) \notin JobsIn(Tail(unit[w]))
           /\ \A k \in DOMAIN Tail(unit[w]) : k + 1 \in DOMAIN unit[w] /\ k + 1 # 1 /\ Tail(unit[w])[k] = unit[w][k + 1]
           /\ \A v \in PoolWorkers : JobsIn(unit'[v]) \subseteq JobsIn(unit[v]) /\ OnceEach(unit'[v])
<1> USE DEF PoolInv
<1>0. PICK u, leftOver : u = unit[w] /\ leftOver = Tail(u)
  OBVIOUS
<1>1. u \in Seq(AllJobs) /\ u # <<>>
  BY <1>0 DEF PoolType
<1>2. /\ leftOver \in Seq(AllJobs) /\ (leftOver = <<>> <=> Len(u) = 1) /\ JobsIn(leftOver) \subseteq JobsIn(u)
      /\ OnceEach(u) => OnceEach(leftOver) /\ Head(u) \notin JobsIn(leftOver)
      /\ \A i \in DOMAIN leftOver : i + 1 \in DOMAIN u /\ i + 1 # 1 /\ leftOver[i] = u[i + 1]
  BY <1>0, <1>1, RestOfUnit
<1>3. unit' = [unit EXCEPT ![w] = leftOver] /\ workerPc' = [workerPc EXCEPT ![w] = IF leftOver = <<>> THEN "get" ELSE "job"]
  BY <1>0, <1>2 DEF JobDone, Goto6
<1>4. /\ unit'[w] = leftOver /\ workerPc'[w] = IF leftOver = <<>> THEN "get" ELSE "job"
      /\ \A v \in PoolWorkers : v # w => unit'[v] = unit[v] /\ workerPc'[v] = workerPc[v]
      /\ unit' \in [PoolWorkers -> Seq(AllJobs)]
      /\ workerPc' \in [PoolWorkers -> {"get", "job", "notify", "tell", "ended"}]
  BY <1>2, <1>3 DEF PoolType
<1>5. \A v \in PoolWorkers : OnceEach(unit[v])
  BY DEF OnePlaceEach
<1>6. \A v \in PoolWorkers : JobsIn(unit'[v]) \subseteq JobsIn(unit[v]) /\ OnceEach(unit'[v])
  BY <1>0, <1>2, <1>4, <1>5
<1>7. Head(u) \notin JobsIn(leftOver)
  BY <1>0, <1>2, <1>5
<1> QED BY <1>0, <1>2, <1>4, <1>6, <1>7

\* More is told, or nothing is: what the result of a call says stays true.
LEMMA NotRunAtWork ==
    ASSUME PoolInv, howCalled' = howCalled, UNCHANGED <<toPut, workq, callPc>>, NEW w \in PoolWorkers, NEW j,
           j \in AtWorker(w), NEW c \in PoolCalls, j \in JobsOf(c), callPc[c] \notin {"no", "refused"},
           \A v \in PoolWorkers : JobsIn(unit'[v]) \subseteq JobsIn(unit[v]),
           \A k \in AllJobs : k # j => results'[k] = results[k],
           \A d \in PoolCalls : d # c => collection'[d] = collection[d] /\ outer'[d] = outer[d] /\ outerSets'[d] = outerSets[d],
           \A v \in PoolWorkers : \A i \in DOMAIN unit'[v] :
               results'[unit'[v][i]] = "no" <=> ~(i = 1 /\ Runs(v)')
    PROVE  NotRun'
<1> USE DEF PoolInv
<1>1. /\ \A d \in PoolCalls : JobsOf(d)' = JobsOf(d) /\ \A s \in DOMAIN toPut[d] : InToPut(d, s)' = InToPut(d, s)
      /\ \A q \in DOMAIN workq : InQueue(q)' = InQueue(q) /\ InQueue(q) \subseteq AllJobs
      /\ \A v \in PoolWorkers : AtWorker(v)' \subseteq AtWorker(v)
  BY SamePlan DEF InToPut, InQueue, AtWorker
<1>2. \A d \in PoolCalls : JobsOf(d) \subseteq AllJobs
  BY DEF AllJobs
<1>3. \A d \in PoolCalls : \A s \in DOMAIN toPut'[d] : \A k \in InToPut(d, s)' : results'[k] = "no"
  <2>1. \A d \in PoolCalls : \A s \in DOMAIN toPut[d] : InToPut(d, s) \subseteq AllJobs /\ j \notin InToPut(d, s)
    BY <1>2 DEF OnePlaceEach
  <2> QED BY <1>1, <2>1 DEF NotRun
<1>4. \A q \in DOMAIN workq' : \A k \in InQueue(q)' : results'[k] = "no"
  <2>1. \A q \in DOMAIN workq : j \notin InQueue(q)
    BY DEF OnePlaceEach
  <2> QED BY <1>1, <2>1 DEF NotRun
<1>5. \A d \in PoolCalls : callPc'[d] \in {"no", "refused"} =>
          /\ \A q \in DOMAIN workq' : InQueue(q)' \cap JobsOf(d)' = {}
          /\ \A v \in PoolWorkers : AtWorker(v)' \cap JobsOf(d)' = {}
          /\ \A k \in JobsOf(d)' : results'[k] = "no"
          /\ collection'[d] = <<>> /\ outer'[d] = "no" /\ outerSets'[d] = 0
  <2> SUFFICES ASSUME NEW d \in PoolCalls, callPc'[d] \in {"no", "refused"}
               PROVE  /\ \A q \in DOMAIN workq' : InQueue(q)' \cap JobsOf(d)' = {}
                      /\ \A v \in PoolWorkers : AtWorker(v)' \cap JobsOf(d)' = {}
                      /\ \A k \in JobsOf(d)' : results'[k] = "no"
                      /\ collection'[d] = <<>> /\ outer'[d] = "no" /\ outerSets'[d] = 0
    OBVIOUS
  <2>1. d # c /\ j \notin JobsOf(d)
    BY PoolLists
  <2> QED BY <1>1, <1>2, <2>1 DEF NotRun
<1> QED BY <1>3, <1>4, <1>5 DEF NotRun

LEMMA ProcessJobKeeps ==
    ASSUME PoolInv, NEW w \in PoolWorkers, ProcessJob(w)
    PROVE  PoolInv'
<1> USE DEF PoolInv
<1>1. /\ workerPc[w] = "job" /\ howCalled' = howCalled
      /\ UNCHANGED <<workq, toPut, callPc, remaining, collection, outer, outerSets>>
      /\ UNCHANGED iterVars /\ UNCHANGED <<idx, yielded, over, timeouts>>
  BY DEF ProcessJob, submitVars, queueVars, iterVars
<1>2. PICK u \in Seq(AllJobs), c \in PoolCalls, i \in Nat :
              /\ u = unit[w] /\ u # <<>> /\ 1 \in DOMAIN u /\ u[1] = <<c, i>> /\ Head(u) = <<c, i>>
              /\ <<c, i>> \in JobsOf(c) /\ CallOf(w) = c /\ <<c, i>> \in AtWorker(w)
              /\ callPc[c] \notin {"no", "refused"}
              /\ (results[<<c, i>>] = "no" <=> ~Runs(w))
              /\ \A v \in PoolWorkers : v # w => <<c, i>> \notin AtWorker(v)
  BY <1>1, AtWork
<1>3. PICK j, leftOver : j = <<c, i>> /\ leftOver = Tail(u)
  OBVIOUS
<1>4. PICK outcome \in {"value", "exception"} : results' = [results EXCEPT ![j] = outcome]
  BY <1>2, <1>3 DEF ProcessJob
<1>5. j \in AllJobs /\ results \in [AllJobs -> {"no", "value", "exception"}]
  BY <1>2, <1>3 DEF AllJobs, PoolType
<1>6. /\ results' \in [AllJobs -> {"no", "value", "exception"}] /\ results'[j] # "no" /\ results[j] = "no"
      /\ \A k \in AllJobs : k # j => results'[k] = results[k]
  <2>1. \A k \in AllJobs : results'[k] = IF k = j THEN outcome ELSE results[k]
    BY <1>4, <1>5
  <2>2. results' \in [AllJobs -> {"no", "value", "exception"}]
    BY <1>4, <1>5
  <2>3. results[j] = "no"
    BY <1>1, <1>2, <1>3 DEF Runs
  <2> QED BY <1>5, <2>1, <2>2, <2>3
<1>7. /\ workerPc' \in [PoolWorkers -> {"get", "job", "notify", "tell", "ended"}]
      /\ unit' \in [PoolWorkers -> Seq(AllJobs)]
      /\ \A v \in PoolWorkers : v # w => unit'[v] = unit[v] /\ workerPc'[v] = workerPc[v]
      /\ \A v \in PoolWorkers : JobsIn(unit'[v]) \subseteq JobsIn(unit[v]) /\ OnceEach(unit'[v])
      /\ \/ Collected(c) /\ unit' = unit /\ workerPc'[w] = "notify"
         \/ /\ ~Collected(c) /\ unit'[w] = leftOver /\ workerPc'[w] = IF leftOver = <<>> THEN "get" ELSE "job"
            /\ j \notin JobsIn(leftOver) /\ \A k \in DOMAIN leftOver : k + 1 \in DOMAIN u /\ k + 1 # 1 /\ leftOver[k] = u[k + 1]
  <2>1. CASE Collected(c)
    <3>1. unit' = unit /\ workerPc' = [workerPc EXCEPT ![w] = "notify"]
      BY <1>2, <2>1 DEF ProcessJob, Goto6
    <3>2. \A v \in PoolWorkers : OnceEach(unit[v])
      BY DEF OnePlaceEach
    <3> QED BY <2>1, <3>1, <3>2 DEF PoolType
  <2>2. CASE ~Collected(c)
    <3>1. JobDone(w)
      BY <1>2, <2>2 DEF ProcessJob
    <3>2. workerPc[w] \in {"job", "notify", "tell"} /\ u = unit[w] /\ leftOver = Tail(u) /\ Head(u) = j
      BY <1>1, <1>2, <1>3
    <3>3. /\ unit'[w] = leftOver /\ \A v \in PoolWorkers : v # w => unit'[v] = unit[v] /\ workerPc'[v] = workerPc[v]
          /\ workerPc'[w] = IF leftOver = <<>> THEN "get" ELSE "job"
          /\ workerPc' \in [PoolWorkers -> {"get", "job", "notify", "tell", "ended"}]
          /\ unit' \in [PoolWorkers -> Seq(AllJobs)]
          /\ Head(u) \notin JobsIn(leftOver)
          /\ \A k \in DOMAIN leftOver : k + 1 \in DOMAIN u /\ k + 1 # 1 /\ leftOver[k] = u[k + 1]
          /\ \A v \in PoolWorkers : JobsIn(unit'[v]) \subseteq JobsIn(unit[v]) /\ OnceEach(unit'[v])
      <4> HIDE DEF PoolInv
      <4>1. PoolInv /\ w \in PoolWorkers /\ workerPc[w] \in {"job", "notify", "tell"} /\ JobDone(w)
        BY <3>1, <3>2
      <4>2. /\ unit'[w] = Tail(unit[w])
            /\ \A v \in PoolWorkers : v # w => unit'[v] = unit[v] /\ workerPc'[v] = workerPc[v]
            /\ workerPc'[w] = IF Tail(unit[w]) = <<>> THEN "get" ELSE "job"
            /\ workerPc' \in [PoolWorkers -> {"get", "job", "notify", "tell", "ended"}]
            /\ unit' \in [PoolWorkers -> Seq(AllJobs)]
            /\ Head(unit[w]) \notin JobsIn(Tail(unit[w]))
            /\ \A k \in DOMAIN Tail(unit[w]) : k + 1 \in DOMAIN unit[w] /\ k + 1 # 1 /\ Tail(unit[w])[k] = unit[w][k + 1]
            /\ \A v \in PoolWorkers : JobsIn(unit'[v]) \subseteq JobsIn(unit[v]) /\ OnceEach(unit'[v])
        BY <4>1, JobDoneKeeps
      <4> QED BY <3>2, <4>2
    <3> QED BY <2>2, <3>2, <3>3
  <2> QED BY <2>1, <2>2
<1>8. PoolType'
  <2>1. \A v \in PoolWorkers : workerPc'[v] \in {"get", "ended"} <=> unit'[v] = <<>>
    <3>1. \A v \in PoolWorkers : workerPc[v] \in {"get", "ended"} <=> unit[v] = <<>>
      BY DEF PoolType
    <3> QED BY <1>2, <1>7, <3>1
  <2> QED BY <1>1, <1>6, <1>7, <2>1, SamePlan DEF PoolType, Sentinel
<1>9. OnePlaceEach'
  BY <1>1, <1>7, PlacesKept
<1>10. NotRun'
  <2>1. \A v \in PoolWorkers : \A k \in DOMAIN unit'[v] :
            results'[unit'[v][k]] = "no" <=> ~(k = 1 /\ Runs(v)')
    <3> TAKE v \in PoolWorkers
    <3>0. \A x \in PoolWorkers : \A k \in DOMAIN unit[x] : unit[x][k] \in AllJobs
      <4>1. \A s \in Seq(AllJobs) : \A k \in DOMAIN s : s[k] \in AllJobs
        OBVIOUS
      <4> QED BY <4>1, PoolLists
    <3>1. CASE v # w
      <4>1. \A k \in DOMAIN unit[v] : unit[v][k] # j
        BY <1>2, <1>3, <3>1 DEF AtWorker, JobsIn
      <4>2. unit'[v] = unit[v] /\ (Runs(v)' <=> Runs(v))
        BY <3>1, <1>7 DEF Runs
      <4>3. \A k \in DOMAIN unit[v] : results[unit[v][k]] = "no" <=> ~(k = 1 /\ Runs(v))
        BY DEF NotRun
      <4>4. \A k \in DOMAIN unit[v] : results'[unit[v][k]] = results[unit[v][k]]
        BY <3>0, <4>1, <1>6
      <4> QED BY <4>2, <4>3, <4>4
    <3>2. CASE v = w
      <4>1. \A k \in DOMAIN u : k # 1 => u[k] # j /\ results[u[k]] = "no" /\ u[k] \in AllJobs
        <5>1. OnceEach(u) /\ \A k \in DOMAIN u : results[u[k]] = "no" <=> ~(k = 1 /\ Runs(w))
          BY <1>2 DEF OnePlaceEach, NotRun
        <5>2. \A k \in DOMAIN u : u[k] \in AllJobs
          BY <1>2, <3>0
        <5>3. 1 \in DOMAIN u /\ u[1] = j
          BY <1>2, <1>3
        <5> QED BY <5>1, <5>2, <5>3 DEF OnceEach
      <4>2. CASE unit' = unit /\ workerPc'[w] = "notify"
        <5>1. unit'[w] = u /\ Runs(w)' /\ u[1] = j
          BY <1>2, <1>3, <4>2 DEF Runs
        <5>2. \A k \in DOMAIN u : k # 1 => results'[u[k]] = "no"
          BY <4>1, <1>6
        <5>3. results'[u[1]] # "no"
          BY <5>1, <1>6
        <5> QED BY <3>2, <5>1, <5>2, <5>3
      <4>3. CASE /\ unit'[w] = leftOver /\ workerPc'[w] = IF leftOver = <<>> THEN "get" ELSE "job"
                 /\ \A k \in DOMAIN leftOver : k + 1 \in DOMAIN u /\ k + 1 # 1 /\ leftOver[k] = u[k + 1]
        <5>1. \A k \in DOMAIN leftOver : results'[leftOver[k]] = "no"
          BY <4>1, <4>3, <1>6
        <5>2. ~Runs(w)'
          BY <4>3 DEF Runs
        <5> QED BY <3>2, <4>3, <5>1, <5>2
      <4> QED BY <1>7, <4>2, <4>3
    <3> QED BY <3>1, <3>2
  <2>2. /\ howCalled' = howCalled /\ UNCHANGED <<toPut, workq, callPc>> /\ j \in AtWorker(w) /\ j \in JobsOf(c)
        /\ callPc[c] \notin {"no", "refused"}
    BY <1>1, <1>2, <1>3
  <2>3. \A v \in PoolWorkers : JobsIn(unit'[v]) \subseteq JobsIn(unit[v])
    BY <1>7
  <2>4. \A d \in PoolCalls : d # c => collection'[d] = collection[d] /\ outer'[d] = outer[d] /\ outerSets'[d] = outerSets[d]
    BY <1>1
  <2> HIDE DEF PoolInv
  <2> QED BY <1>6, <2>1, <2>2, <2>3, <2>4, NotRunAtWork
\* The collector is to be told yet, where there is one.
<1>11. \A d \in PoolCalls : /\ Unnotified(d)' \subseteq Unnotified(d)
                            /\ Ordered(d) => Unnotified(d)' = Unnotified(d)
  <2> TAKE d \in PoolCalls
  <2>1. \A k \in JobsOf(d) : k # j => (k \in Unnotified(d)' <=> k \in Unnotified(d))
    <3> TAKE k \in JobsOf(d)
    <3> HAVE k # j
    <3>0. k \in AllJobs /\ results'[k] = results[k]
      BY <1>6 DEF AllJobs
    <3>1. \A v \in PoolWorkers : (workerPc'[v] = "notify" /\ Head(unit'[v]) = k) <=> workerPc[v] = "notify" /\ Head(unit[v]) = k
      <4>1. workerPc[w] # "notify" /\ (workerPc'[w] = "notify" => Head(unit'[w]) = j)
        BY <1>1, <1>2, <1>3, <1>7
      <4> QED BY <4>1, <1>7
    <3> QED BY <1>1, <3>0, <3>1, SamePlan DEF Unnotified
  <2>2. j \in JobsOf(d) => d = c
    BY <1>2, <1>3, PoolLists
  <2>3. j \in Unnotified(c)
    BY <1>2, <1>3, <1>6 DEF Unnotified
  <2>4. Ordered(c) => j \in Unnotified(c)'
    <3> HAVE Ordered(c)
    <3>1. unit' = unit /\ workerPc'[w] = "notify" /\ Head(unit'[w]) = j
      BY <1>2, <1>3, <1>7 DEF Ordered, Collected
    <3> QED BY <1>1, <1>2, <1>3, <3>1, SamePlan DEF Unnotified
  <2>5. Unnotified(d) \subseteq JobsOf(d) /\ Unnotified(d)' \subseteq JobsOf(d)
    BY <1>1, SamePlan DEF Unnotified
  <2> QED BY <2>1, <2>2, <2>3, <2>4, <2>5
<1>12. Counted'
  <2>1. ASSUME NEW d \in PoolCalls
        PROVE  IF Ordered(d)' THEN callPc'[d] \notin {"no", "refused"} => remaining'[d] = Cardinality(Unnotified(d)')
               ELSE /\ \A k \in DOMAIN collection'[d] : <<d, collection'[d][k]>> \in JobsOf(d)' \ Unnotified(d)'
                    /\ OnceEach(collection'[d])
    BY <1>1, <1>11, SamePlan DEF Counted
  <2> QED BY <2>1 DEF Counted, OnceEach
<1>13. ToldOnce'
  <2>1. \A v \in PoolWorkers, d \in PoolCalls : Telling(v, d)' <=> Telling(v, d)
    BY <1>1, <1>7 DEF Telling, CallOf
  <2>2. \A d \in PoolCalls : Told(d)' <=> Told(d)
    BY <1>1, <2>1 DEF Told
  <2>3. ASSUME NEW d \in PoolCalls, Told(d)
        PROVE  \/ KindOf(d)' = "map" /\ Unnotified(d)' = {}
               \/ KindOf(d)' = "imap_async" /\ Unnotified(d)' # JobsOf(d)'
               \/ KindOf(d)' = "unordered_async" /\ collection'[d] # <<>>
    <3>1. Unnotified(d) \subseteq JobsOf(d)
      BY DEF Unnotified
    <3>2. \/ KindOf(d) = "map" /\ Unnotified(d) = {}
          \/ KindOf(d) = "imap_async" /\ Unnotified(d) # JobsOf(d)
          \/ KindOf(d) = "unordered_async" /\ collection[d] # <<>>
      BY <2>3 DEF ToldOnce
    <3> QED BY <1>1, <1>11, <3>1, <3>2, SamePlan
  <2> QED BY <1>1, <2>1, <2>2, <2>3, SamePlan DEF ToldOnce
<1>14. Iterated'
  <2>1. \A k \in AllJobs : results[k] # "no" => results'[k] # "no"
    BY <1>6
  <2> QED BY <1>1, <2>1, IteratedKept
<1> QED BY <1>8, <1>9, <1>10, <1>12, <1>13, <1>14

\* notify_ready() is called once for each job, after its result is set.
LEMMA NotifyKeeps ==
    ASSUME PoolInv, NEW w \in PoolWorkers, Notify(w)
    PROVE  PoolInv'
<1> USE DEF PoolInv
<1>1. /\ workerPc[w] = "notify" /\ howCalled' = howCalled
      /\ UNCHANGED <<workq, toPut, callPc, results, outer, outerSets>>
      /\ UNCHANGED iterVars /\ UNCHANGED <<idx, yielded, over, timeouts>>
  BY DEF Notify, submitVars, queueVars, iterVars
<1>2. PICK u \in Seq(AllJobs), c \in PoolCalls, i \in Nat :
              /\ u = unit[w] /\ u # <<>> /\ 1 \in DOMAIN u /\ u[1] = <<c, i>> /\ Head(u) = <<c, i>>
              /\ <<c, i>> \in JobsOf(c) /\ CallOf(w) = c /\ <<c, i>> \in AtWorker(w)
              /\ callPc[c] \notin {"no", "refused"}
              /\ (results[<<c, i>>] = "no" <=> ~Runs(w))
              /\ \A v \in PoolWorkers : v # w => <<c, i>> \notin AtWorker(v)
  BY <1>1, AtWork
<1>3. PICK j, leftOver : j = <<c, i>> /\ leftOver = Tail(u)
  OBVIOUS
<1>4. IF Ordered(c) THEN remaining' = [remaining EXCEPT ![c] = @ - 1] /\ collection' = collection
      ELSE remaining' = remaining /\ collection' = [collection EXCEPT ![c] = Append(@, i)]
  BY <1>2 DEF Notify
<1>5. /\ remaining' \in [PoolCalls -> Int] /\ collection' \in [PoolCalls -> Seq(Nat)]
      /\ \A d \in PoolCalls : d # c => remaining'[d] = remaining[d] /\ collection'[d] = collection[d]
      /\ Ordered(c) => collection' = collection /\ remaining'[c] = remaining[c] - 1
      /\ ~Ordered(c) => remaining' = remaining /\ collection'[c] = Append(collection[c], i)
  <2>0. remaining \in [PoolCalls -> Int] /\ collection \in [PoolCalls -> Seq(Nat)]
    BY DEF PoolType
  <2>1. CASE Ordered(c)
    <3>1. remaining' \in [PoolCalls -> Int] /\ \A d \in PoolCalls : remaining'[d] = IF d = c THEN remaining[c] - 1 ELSE remaining[d]
      BY <1>4, <2>0, <2>1
    <3> QED BY <1>4, <2>0, <2>1, <3>1
  <2>2. CASE ~Ordered(c)
    <3>1. Append(collection[c], i) \in Seq(Nat)
      BY <2>0, OneMore
    <3>2. collection' = [collection EXCEPT ![c] = Append(collection[c], i)]
      BY <1>4, <2>2
    <3> QED BY <1>4, <2>0, <2>2, <3>1, <3>2
  <2> QED BY <2>1, <2>2
<1>6. /\ workerPc' \in [PoolWorkers -> {"get", "job", "notify", "tell", "ended"}]
      /\ unit' \in [PoolWorkers -> Seq(AllJobs)]
      /\ \A v \in PoolWorkers : v # w => unit'[v] = unit[v] /\ workerPc'[v] = workerPc[v]
      /\ \A v \in PoolWorkers : JobsIn(unit'[v]) \subseteq JobsIn(unit[v]) /\ OnceEach(unit'[v])
      /\ \/ Tells(c) /\ unit' = unit /\ workerPc'[w] = "tell"
         \/ /\ ~Tells(c) /\ unit'[w] = leftOver /\ workerPc'[w] = IF leftOver = <<>> THEN "get" ELSE "job"
            /\ j \notin JobsIn(leftOver) /\ \A k \in DOMAIN leftOver : k + 1 \in DOMAIN u /\ k + 1 # 1 /\ leftOver[k] = u[k + 1]
  <2>1. CASE Tells(c)
    <3>1. unit' = unit /\ workerPc' = [workerPc EXCEPT ![w] = "tell"]
      BY <1>2, <2>1 DEF Notify, Goto6
    <3>2. \A v \in PoolWorkers : OnceEach(unit[v])
      BY DEF OnePlaceEach
    <3> QED BY <2>1, <3>1, <3>2 DEF PoolType
  <2>2. CASE ~Tells(c)
    <3>1. JobDone(w) /\ workerPc[w] \in {"job", "notify", "tell"}
      BY <1>1, <1>2, <2>2 DEF Notify
    <3>2. /\ unit'[w] = Tail(unit[w])
          /\ \A v \in PoolWorkers : v # w => unit'[v] = unit[v] /\ workerPc'[v] = workerPc[v]
          /\ workerPc'[w] = IF Tail(unit[w]) = <<>> THEN "get" ELSE "job"
          /\ workerPc' \in [PoolWorkers -> {"get", "job", "notify", "tell", "ended"}]
          /\ unit' \in [PoolWorkers -> Seq(AllJobs)]
          /\ Head(unit[w]) \notin JobsIn(Tail(unit[w]))
          /\ \A k \in DOMAIN Tail(unit[w]) : k + 1 \in DOMAIN unit[w] /\ k + 1 # 1 /\ Tail(unit[w])[k] = unit[w][k + 1]
          /\ \A v \in PoolWorkers : JobsIn(unit'[v]) \subseteq JobsIn(unit[v]) /\ OnceEach(unit'[v])
      <4> HIDE DEF PoolInv
      <4> QED BY <3>1, JobDoneKeeps
    <3> QED BY <1>2, <1>3, <2>2, <3>2
  <2> QED BY <2>1, <2>2
<1>7. PoolType'
  <2>1. \A v \in PoolWorkers : workerPc'[v] \in {"get", "ended"} <=> unit'[v] = <<>>
    <3>1. \A v \in PoolWorkers : workerPc[v] \in {"get", "ended"} <=> unit[v] = <<>>
      BY DEF PoolType
    <3> QED BY <1>2, <1>6, <3>1
  <2> QED BY <1>1, <1>5, <1>6, <2>1, SamePlan DEF PoolType, Sentinel
<1>8. OnePlaceEach'
  BY <1>1, <1>6, PlacesKept
<1>9. NotRun'
  <2>1. \A v \in PoolWorkers : \A k \in DOMAIN unit'[v] :
            results'[unit'[v][k]] = "no" <=> ~(k = 1 /\ Runs(v)')
    <3> TAKE v \in PoolWorkers
    <3>0. \A k \in DOMAIN unit[v] : results[unit[v][k]] = "no" <=> ~(k = 1 /\ Runs(v))
      BY DEF NotRun
    <3>1. CASE v # w \/ (unit' = unit /\ workerPc'[w] = "tell")
      <4>1. unit'[v] = unit[v] /\ (Runs(v)' <=> Runs(v))
        BY <1>1, <1>6, <3>1 DEF Runs
      <4> QED BY <1>1, <3>0, <4>1
    <3>2. CASE /\ v = w /\ unit'[w] = leftOver /\ workerPc'[w] = IF leftOver = <<>> THEN "get" ELSE "job"
               /\ \A k \in DOMAIN leftOver : k + 1 \in DOMAIN u /\ k + 1 # 1 /\ leftOver[k] = u[k + 1]
      <4>1. \A k \in DOMAIN leftOver : results[leftOver[k]] = "no"
        BY <1>2, <3>0, <3>2
      <4>2. ~Runs(w)'
        BY <3>2 DEF Runs
      <4> QED BY <1>1, <3>2, <4>1, <4>2
    <3> QED BY <1>6, <3>1, <3>2
  <2>2. /\ howCalled' = howCalled /\ UNCHANGED <<toPut, workq, callPc>> /\ j \in AtWorker(w) /\ j \in JobsOf(c)
        /\ callPc[c] \notin {"no", "refused"}
    BY <1>1, <1>2, <1>3
  <2>3. \A v \in PoolWorkers : JobsIn(unit'[v]) \subseteq JobsIn(unit[v])
    BY <1>6
  <2>4. \A d \in PoolCalls : d # c => collection'[d] = collection[d] /\ outer'[d] = outer[d] /\ outerSets'[d] = outerSets[d]
    BY <1>1, <1>5
  <2>5. \A k \in AllJobs : k # j => results'[k] = results[k]
    BY <1>1
  <2> HIDE DEF PoolInv
  <2> QED BY SMTT(30), <2>1, <2>2, <2>3, <2>4, <2>5, NotRunAtWork
\* The collector was not told of this job, and now it was.
<1>10. /\ j \in Unnotified(c) /\ Unnotified(c)' = Unnotified(c) \ {j} /\ Unnotified(c) \subseteq JobsOf(c)
       /\ \A d \in PoolCalls : d # c => Unnotified(d)' = Unnotified(d)
  <2>1. j \in Unnotified(c) /\ \A d \in PoolCalls : Unnotified(d) \subseteq JobsOf(d) /\ Unnotified(d)' \subseteq JobsOf(d)
    BY <1>1, <1>2, <1>3, SamePlan DEF Unnotified
  <2>2. \A d \in PoolCalls : \A k \in JobsOf(d) : k # j => (k \in Unnotified(d)' <=> k \in Unnotified(d))
    <3> TAKE d \in PoolCalls
    <3> TAKE k \in JobsOf(d)
    <3> HAVE k # j
    <3>1. \A v \in PoolWorkers : (workerPc'[v] = "notify" /\ Head(unit'[v]) = k) <=> workerPc[v] = "notify" /\ Head(unit[v]) = k
      <4>1. Head(unit[w]) = j /\ workerPc'[w] # "notify"
        BY <1>2, <1>3, <1>6
      <4> QED BY <4>1, <1>6
    <3> QED BY <1>1, <3>1, SamePlan DEF Unnotified
  <2>3. j \notin Unnotified(c)'
    <3>1. results'[j] # "no"
      BY <1>1, <1>2, <1>3 DEF Runs
    <3>2. \A v \in PoolWorkers : ~(workerPc'[v] = "notify" /\ Head(unit'[v]) = j)
      <4> SUFFICES ASSUME NEW v \in PoolWorkers, workerPc'[v] = "notify" PROVE Head(unit'[v]) # j
        OBVIOUS
      <4>1. v # w /\ unit'[v] = unit[v] /\ workerPc[v] = "notify"
        BY <1>6
      <4>2. Head(unit[v]) \in AtWorker(v)
        <5>1. unit[v] \in Seq(AllJobs) /\ unit[v] # <<>>
          BY <4>1 DEF PoolType
        <5> QED BY <5>1, RestOfUnit DEF AtWorker
      <4> QED BY <1>2, <1>3, <4>1, <4>2
    <3> QED BY <3>1, <3>2 DEF Unnotified
  <2>4. \A d \in PoolCalls : j \in JobsOf(d) => d = c
    BY <1>2, <1>3, PoolLists
  <2> QED BY <2>1, <2>2, <2>3, <2>4
<1>11. /\ IsFiniteSet(Unnotified(c)) /\ Cardinality(Unnotified(c)') = Cardinality(Unnotified(c)) - 1
       /\ Cardinality(Unnotified(c)) = 1 => Unnotified(c)' = {}
       /\ Cardinality(Unnotified(c)) = howCalled[c].n => Unnotified(c) = JobsOf(c)
  <2>1. PICK s, t : s = Unnotified(c) /\ t = Unnotified(c)'
    OBVIOUS
  <2>2. t = s \ {j} /\ j \in s /\ s \in SUBSET JobsOf(c)
    BY <1>10, <2>1
  <2>3. IsFiniteSet(s) /\ (Cardinality(JobsOf(c)) = Cardinality(s) => JobsOf(c) = s)
    BY <2>2, CountOfJobs, FS_Subset
  <2>4. Cardinality(t) = Cardinality(s) - 1 /\ IsFiniteSet(t)
    BY <2>2, <2>3, FS_RemoveElement
  <2>5. Cardinality(s) = 1 => t = {}
    BY <2>4, FS_EmptySet
  <2> QED BY <2>1, <2>3, <2>4, <2>5, CountOfJobs
<1>12. Counted'
  <2>1. ASSUME NEW d \in PoolCalls
        PROVE  IF Ordered(d)' THEN callPc'[d] \notin {"no", "refused"} => remaining'[d] = Cardinality(Unnotified(d)')
               ELSE /\ \A k \in DOMAIN collection'[d] : <<d, collection'[d][k]>> \in JobsOf(d)' \ Unnotified(d)'
                    /\ OnceEach(collection'[d])
    <3>1. CASE d # c
      BY <1>1, <1>5, <1>10, <3>1, SamePlan DEF Counted
    <3>2. CASE d = c /\ Ordered(c)
      BY <1>1, <1>2, <1>5, <1>11, <3>2, SamePlan DEF Counted
    <3>3. CASE d = c /\ ~Ordered(c)
      <4>1. PICK s, t : s = collection[c] /\ t = Append(s, i) /\ s \in Seq(Nat)
        BY DEF PoolType
      <4>2. collection'[c] = t /\ DOMAIN t = DOMAIN s \cup {Len(s) + 1} /\ t[Len(s) + 1] = i /\ Len(s) + 1 \notin DOMAIN s
            /\ \A k \in DOMAIN s : t[k] = s[k]
        BY <1>5, <3>3, <4>1, OneMore
      <4>3. \A k \in DOMAIN s : <<c, s[k]>> \in JobsOf(c) \ Unnotified(c)
        BY <3>3, <4>1 DEF Counted
      <4>4. OnceEach(s)
        BY <3>3, <4>1 DEF Counted
      <4>5. \A k \in DOMAIN s : s[k] # i
        BY <1>3, <1>10, <4>3
      <4>6. OnceEach(t)
        BY <4>2, <4>4, <4>5 DEF OnceEach
      <4>7. \A k \in DOMAIN t : <<c, t[k]>> \in JobsOf(c) \ Unnotified(c)'
        BY <1>2, <1>3, <1>10, <4>2, <4>3
      <4> QED BY <1>1, <3>3, <4>2, <4>6, <4>7, SamePlan
    <3> QED BY <3>1, <3>2, <3>3
  <2> QED BY <2>1 DEF Counted, OnceEach
\* It is the last, or the first, when it tells: no other thread did.
<1>13. Tells(c) => /\ ~Told(c)
                   /\ \/ KindOf(c) = "map" /\ Unnotified(c)' = {}
                      \/ KindOf(c) = "imap_async" /\ Unnotified(c)' # JobsOf(c)
                      \/ KindOf(c) = "unordered_async" /\ collection'[c] # <<>>
  <2> HAVE Tells(c)
  <2>1. CASE KindOf(c) = "map" /\ remaining[c] = 1
    <3>1. Cardinality(Unnotified(c)) = 1
      BY <1>2, <2>1 DEF Counted, Ordered
    <3> QED BY <1>10, <1>11, <2>1, <3>1 DEF ToldOnce
  <2>2. CASE KindOf(c) = "imap_async" /\ remaining[c] = howCalled[c].n
    <3>1. Unnotified(c) = JobsOf(c)
      BY <1>2, <1>11, <2>2 DEF Counted, Ordered
    <3> QED BY <1>10, <2>2, <3>1 DEF ToldOnce
  <2>3. CASE KindOf(c) = "unordered_async" /\ collection[c] = <<>>
    <3>1. collection'[c] = Append(collection[c], i) /\ collection[c] \in Seq(Nat)
      BY <1>5, <2>3 DEF Ordered, PoolType
    <3>2. collection'[c] # <<>>
      BY <3>1, OneMore
    <3> QED BY <2>3, <3>2 DEF ToldOnce
  <2> QED BY <2>1, <2>2, <2>3 DEF Tells, GotLast, GotLastCounted, GotFirst, Ordered
<1>14. ToldOnce'
  <2>1. \A v \in PoolWorkers, d \in PoolCalls : v # w \/ d # c => (Telling(v, d)' <=> Telling(v, d))
    <3> TAKE v \in PoolWorkers, d \in PoolCalls
    <3>1. CASE v # w
      BY <1>6, <3>1 DEF Telling, CallOf
    <3>2. CASE v = w /\ d # c
      <4>1. workerPc'[w] = "tell" => unit'[w] = unit[w]
        BY <1>6
      <4> QED BY <1>2, <3>2, <4>1, <1>1 DEF Telling, CallOf
    <3> QED BY <3>1, <3>2
  <2>2. ~Telling(w, c) /\ (Telling(w, c)' <=> Tells(c))
    <3>1. Tells(c) => workerPc'[w] = "tell" /\ unit'[w] = unit[w]
      BY <1>6
    <3>2. ~Tells(c) => workerPc'[w] # "tell"
      BY <1>6
    <3> QED BY <1>1, <1>2, <3>1, <3>2 DEF Telling, CallOf
  <2>3. ASSUME NEW d \in PoolCalls, Told(d)
        PROVE  \/ KindOf(d)' = "map" /\ Unnotified(d)' = {}
               \/ KindOf(d)' = "imap_async" /\ Unnotified(d)' # JobsOf(d)'
               \/ KindOf(d)' = "unordered_async" /\ collection'[d] # <<>>
    <3>1. Unnotified(d) \subseteq JobsOf(d) /\ Unnotified(d)' \subseteq Unnotified(d)
      BY <1>10 DEF Unnotified
    <3>2. \/ KindOf(d) = "map" /\ Unnotified(d) = {}
          \/ KindOf(d) = "imap_async" /\ Unnotified(d) # JobsOf(d)
          \/ KindOf(d) = "unordered_async" /\ collection[d] # <<>>
      BY <2>3 DEF ToldOnce
    <3>3. collection[d] # <<>> => collection'[d] # <<>>
      <4>1. collection[c] \in Seq(Nat)
        BY DEF PoolType
      <4>2. Append(collection[c], i) # <<>>
        BY <4>1, OneMore
      <4> QED BY <1>5, <4>2
    <3> QED BY <1>1, <3>1, <3>2, <3>3, SamePlan
  <2>4. CASE Tells(c)
    <3>1. outerSets[c] = 0 /\ \A v \in PoolWorkers : ~Telling(v, c)
      <4>1. ~(outerSets[c] > 0) /\ outerSets[c] \in Nat
        BY <1>13, <2>4 DEF Told, PoolType
      <4> QED BY <1>13, <2>4, <4>1 DEF Told
    <3>2. \A d \in PoolCalls : Told(d)' => d = c \/ Told(d)
      BY <1>1, <2>1 DEF Told
    <3>3. ASSUME NEW d \in PoolCalls, d # c
          PROVE  /\ outerSets'[d] = 0 \/ (outerSets'[d] = 1 /\ \A v \in PoolWorkers : ~Telling(v, d)')
                 /\ \A v, x \in PoolWorkers : Telling(v, d)' /\ Telling(x, d)' => v = x
                 /\ outer'[d] # "no" => outerSets'[d] = 1
                 /\ outer'[d] \in {"list", "exception"} => KindOf(d)' = "map"
                 /\ outer'[d] = "iterator" => KindOf(d)' # "map"
      BY <1>1, <2>1, <3>3, SamePlan DEF ToldOnce
    <3>4. /\ outerSets'[c] = 0
          /\ \A v, x \in PoolWorkers : Telling(v, c)' /\ Telling(x, c)' => v = x
          /\ outer'[c] = "no"
      BY <1>1, <2>1, <3>1 DEF ToldOnce
    <3>5. \A d \in PoolCalls : Told(d)' => 
               \/ KindOf(d)' = "map" /\ Unnotified(d)' = {}
               \/ KindOf(d)' = "imap_async" /\ Unnotified(d)' # JobsOf(d)'
               \/ KindOf(d)' = "unordered_async" /\ collection'[d] # <<>>
      BY <1>1, <1>13, <2>3, <2>4, <3>2, SamePlan
    <3> QED BY <3>3, <3>4, <3>5 DEF ToldOnce
  <2>5. CASE ~Tells(c)
    <3>1. \A v \in PoolWorkers, d \in PoolCalls : Telling(v, d)' <=> Telling(v, d)
      BY <2>1, <2>2, <2>5
    <3>2. \A d \in PoolCalls : Told(d)' <=> Told(d)
      BY <1>1, <3>1 DEF Told
    <3> QED BY <1>1, <2>3, <3>1, <3>2, SamePlan DEF ToldOnce
  <2> QED BY <2>4, <2>5
<1>15. Iterated'
  <2>1. \A d \in PoolCalls : \A k \in DOMAIN collection[d] : k \in DOMAIN collection'[d] /\ collection'[d][k] = collection[d][k]
    <3> TAKE d \in PoolCalls
    <3>1. CASE collection'[d] = collection[d]
      BY <3>1
    <3>2. CASE d = c /\ collection'[c] = Append(collection[c], i)
      <4>1. collection[c] \in Seq(Nat)
        BY DEF PoolType
      <4> QED BY <3>2, <4>1, OneMore
    <3> QED BY <1>5, <3>1, <3>2
  <2> QED BY <1>1, <2>1, IteratedKept
<1> QED BY <1>7, <1>8, <1>9, <1>12, <1>14, <1>15

LEMMA TellOuterKeeps ==
    ASSUME PoolInv, NEW w \in PoolWorkers, TellOuter(w)
    PROVE  PoolInv'
<1> USE DEF PoolInv
<1>1. /\ workerPc[w] = "tell" /\ howCalled' = howCalled /\ JobDone(w)
      /\ UNCHANGED <<workq, toPut, callPc, results, remaining, collection>>
      /\ UNCHANGED iterVars /\ UNCHANGED <<idx, yielded, over, timeouts>>
  BY DEF TellOuter, submitVars, queueVars, iterVars
<1>2. PICK u \in Seq(AllJobs), c \in PoolCalls, i \in Nat :
              /\ u = unit[w] /\ u # <<>> /\ 1 \in DOMAIN u /\ u[1] = <<c, i>> /\ Head(u) = <<c, i>>
              /\ <<c, i>> \in JobsOf(c) /\ CallOf(w) = c /\ <<c, i>> \in AtWorker(w)
              /\ callPc[c] \notin {"no", "refused"}
              /\ (results[<<c, i>>] = "no" <=> ~Runs(w))
              /\ \A v \in PoolWorkers : v # w => <<c, i>> \notin AtWorker(v)
  BY <1>1, AtWork
<1>3. PICK j, leftOver : j = <<c, i>> /\ leftOver = Tail(u)
  OBVIOUS
<1>4. PICK what : /\ what = (IF KindOf(c) # "map" THEN "iterator"
                             ELSE IF \A k \in JobsOf(c) : results[k] = "value" THEN "list" ELSE "exception")
                  /\ outer' = [outer EXCEPT ![c] = what] /\ outerSets' = [outerSets EXCEPT ![c] = @ + 1]
  BY <1>2 DEF TellOuter
<1>5. /\ outer' \in [PoolCalls -> {"no", "list", "exception", "iterator"}] /\ outerSets' \in [PoolCalls -> Nat]
      /\ \A d \in PoolCalls : d # c => outer'[d] = outer[d] /\ outerSets'[d] = outerSets[d]
      /\ outer'[c] = what /\ outerSets'[c] = outerSets[c] + 1
      /\ what \in {"list", "exception"} => KindOf(c) = "map"
      /\ what = "iterator" => KindOf(c) # "map"
  <2>1. what \in {"list", "exception", "iterator"}
    BY <1>4
  <2>2. outer \in [PoolCalls -> {"no", "list", "exception", "iterator"}] /\ outerSets \in [PoolCalls -> Nat]
    BY DEF PoolType
  <2> QED BY <1>4, <2>1, <2>2
<1>6. /\ unit'[w] = Tail(unit[w])
      /\ \A v \in PoolWorkers : v # w => unit'[v] = unit[v] /\ workerPc'[v] = workerPc[v]
      /\ workerPc'[w] = IF Tail(unit[w]) = <<>> THEN "get" ELSE "job"
      /\ workerPc' \in [PoolWorkers -> {"get", "job", "notify", "tell", "ended"}]
      /\ unit' \in [PoolWorkers -> Seq(AllJobs)]
      /\ Head(unit[w]) \notin JobsIn(Tail(unit[w]))
      /\ \A k \in DOMAIN Tail(unit[w]) : k + 1 \in DOMAIN unit[w] /\ k + 1 # 1 /\ Tail(unit[w])[k] = unit[w][k + 1]
      /\ \A v \in PoolWorkers : JobsIn(unit'[v]) \subseteq JobsIn(unit[v]) /\ OnceEach(unit'[v])
  <2>1. workerPc[w] \in {"job", "notify", "tell"} /\ JobDone(w)
    BY <1>1
  <2> HIDE DEF PoolInv
  <2> QED BY <2>1, JobDoneKeeps
<1>7. PoolType'
  <2>1. \A v \in PoolWorkers : workerPc'[v] \in {"get", "ended"} <=> unit'[v] = <<>>
    <3>1. \A v \in PoolWorkers : workerPc[v] \in {"get", "ended"} <=> unit[v] = <<>>
      BY DEF PoolType
    <3> QED BY <1>6, <3>1
  <2> QED BY <1>1, <1>5, <1>6, <2>1, SamePlan DEF PoolType, Sentinel
<1>8. OnePlaceEach'
  BY <1>1, <1>6, PlacesKept
<1>9. NotRun'
  <2>1. \A v \in PoolWorkers : \A k \in DOMAIN unit'[v] :
            results'[unit'[v][k]] = "no" <=> ~(k = 1 /\ Runs(v)')
    <3> TAKE v \in PoolWorkers
    <3>0. \A k \in DOMAIN unit[v] : results[unit[v][k]] = "no" <=> ~(k = 1 /\ Runs(v))
      BY DEF NotRun
    <3>1. CASE v # w
      <4>1. unit'[v] = unit[v] /\ (Runs(v)' <=> Runs(v))
        BY <1>6, <3>1 DEF Runs
      <4> QED BY <1>1, <3>0, <4>1
    <3>2. CASE v = w
      <4>1. unit'[w] = leftOver /\ \A k \in DOMAIN leftOver : k + 1 \in DOMAIN u /\ k + 1 # 1 /\ leftOver[k] = u[k + 1]
        BY <1>2, <1>3, <1>6
      <4>2. \A k \in DOMAIN leftOver : results[leftOver[k]] = "no"
        BY <1>2, <3>0, <3>2, <4>1
      <4>3. ~Runs(w)'
        BY <1>6 DEF Runs
      <4> QED BY <1>1, <3>2, <4>1, <4>2, <4>3
    <3> QED BY <3>1, <3>2
  <2>2. /\ howCalled' = howCalled /\ UNCHANGED <<toPut, workq, callPc>> /\ j \in AtWorker(w) /\ j \in JobsOf(c)
        /\ callPc[c] \notin {"no", "refused"}
    BY <1>1, <1>2, <1>3
  <2>3. \A v \in PoolWorkers : JobsIn(unit'[v]) \subseteq JobsIn(unit[v])
    BY <1>6
  <2>4. \A d \in PoolCalls : d # c => collection'[d] = collection[d] /\ outer'[d] = outer[d] /\ outerSets'[d] = outerSets[d]
    BY <1>1, <1>5
  <2>5. \A k \in AllJobs : k # j => results'[k] = results[k]
    BY <1>1
  <2> HIDE DEF PoolInv
  <2> QED BY SMTT(30), <2>1, <2>2, <2>3, <2>4, <2>5, NotRunAtWork
<1>10. workerPc'[w] \notin {"notify", "tell"} /\ \A d \in PoolCalls : Unnotified(d)' = Unnotified(d)
  <2>1. workerPc'[w] \notin {"notify", "tell"}
    BY <1>6
  <2>2. ASSUME NEW d \in PoolCalls, NEW k \in JobsOf(d) PROVE k \in Unnotified(d)' <=> k \in Unnotified(d)
    <3>1. \A v \in PoolWorkers : (workerPc'[v] = "notify" /\ Head(unit'[v]) = k) <=> workerPc[v] = "notify" /\ Head(unit[v]) = k
      BY <1>1, <1>6, <2>1
    <3> QED BY <1>1, <3>1, SamePlan DEF Unnotified
  <2>3. \A d \in PoolCalls : Unnotified(d) \subseteq JobsOf(d) /\ Unnotified(d)' \subseteq JobsOf(d)
    BY <1>1, SamePlan DEF Unnotified
  <2> QED BY <2>1, <2>2, <2>3
<1>11. Counted'
  <2>1. ASSUME NEW d \in PoolCalls
        PROVE  IF Ordered(d)' THEN callPc'[d] \notin {"no", "refused"} => remaining'[d] = Cardinality(Unnotified(d)')
               ELSE /\ \A k \in DOMAIN collection'[d] : <<d, collection'[d][k]>> \in JobsOf(d)' \ Unnotified(d)'
                    /\ OnceEach(collection'[d])
    BY <1>1, <1>10, SamePlan DEF Counted
  <2> QED BY <2>1 DEF Counted, OnceEach
<1>12. ToldOnce'
  <2>1. \A v \in PoolWorkers, d \in PoolCalls : v # w => (Telling(v, d)' <=> Telling(v, d))
    BY <1>6 DEF Telling, CallOf
  <2>2. \A d \in PoolCalls : ~Telling(w, d)' /\ (Telling(w, d) <=> d = c)
    BY <1>1, <1>2, <1>10 DEF Telling
  <2>3. outerSets[c] = 0 /\ \A v \in PoolWorkers : Telling(v, c) => v = w
    BY <2>2 DEF ToldOnce
  <2>4. \A d \in PoolCalls : Told(d)' => Told(d)
    <3>1. \A d \in PoolCalls : d # c => outerSets'[d] = outerSets[d]
      BY <1>5
    <3>2. Told(c)
      BY <2>2 DEF Told
    <3> QED BY <2>1, <2>2, <3>1, <3>2 DEF Told
  <2>5. ASSUME NEW d \in PoolCalls
        PROVE  /\ outerSets'[d] = 0 \/ (outerSets'[d] = 1 /\ \A v \in PoolWorkers : ~Telling(v, d)')
               /\ \A v, x \in PoolWorkers : Telling(v, d)' /\ Telling(x, d)' => v = x
               /\ outer'[d] # "no" => outerSets'[d] = 1
               /\ outer'[d] \in {"list", "exception"} => KindOf(d)' = "map"
               /\ outer'[d] = "iterator" => KindOf(d)' # "map"
    <3>1. CASE d # c
      <4>1. outer'[d] = outer[d] /\ outerSets'[d] = outerSets[d] /\ \A v \in PoolWorkers : Telling(v, d)' <=> Telling(v, d)
        BY <1>5, <2>1, <2>2, <3>1
      <4> QED BY <1>1, <4>1, SamePlan DEF ToldOnce
    <3>2. CASE d = c
      <4>1. outerSets'[c] = 1 /\ \A v \in PoolWorkers : ~Telling(v, c)'
        BY <1>5, <2>1, <2>2, <2>3
      <4> QED BY <1>1, <1>5, <3>2, <4>1, SamePlan
    <3> QED BY <3>1, <3>2
  <2>6. ASSUME NEW d \in PoolCalls, Told(d)
        PROVE  \/ KindOf(d)' = "map" /\ Unnotified(d)' = {}
               \/ KindOf(d)' = "imap_async" /\ Unnotified(d)' # JobsOf(d)'
               \/ KindOf(d)' = "unordered_async" /\ collection'[d] # <<>>
    BY <1>1, <1>10, <2>6, SamePlan DEF ToldOnce
  <2> QED BY <2>4, <2>5, <2>6 DEF ToldOnce
<1>13. Iterated'
  BY <1>1, IteratedKept
<1> QED BY <1>7, <1>8, <1>9, <1>11, <1>12, <1>13

-----------------------------------------------------------------------------
\* The iterators read; only they change what they gave.
LEMMA OnlyIterators ==
    ASSUME PoolInv, UNCHANGED <<queueVars, workVars, submitVars, resultVars>>
    PROVE  /\ OnePlaceEach' /\ NotRun' /\ Counted' /\ ToldOnce'
           /\ /\ idx' \in [PoolCalls -> Nat \ {0}] /\ yielded' \in [PoolCalls -> Seq(Nat)] /\ over' \in [PoolCalls -> BOOLEAN]
              /\ timeouts' \in Nat
              => PoolType'
<1> USE DEF PoolInv
<1>1. /\ howCalled' = howCalled
      /\ UNCHANGED <<workq, toPut, callPc, unit, workerPc, results, remaining, collection, outer, outerSets>>
  BY DEF queueVars, workVars, submitVars, resultVars
<1>2. PICK f : f = [q \in DOMAIN workq |-> q]
  OBVIOUS
<1>3. OnePlaceEach' /\ NotRun'
  <2>1. \A q \in DOMAIN workq' : QueueFrom(f, q)
    BY <1>1, <1>2 DEF QueueFrom, OnePlaceEach
  <2>2. \A q, r \in DOMAIN workq' : q # r => f[q] # f[r]
    BY <1>1, <1>2
  <2>3. \A w \in PoolWorkers : Runs(w)' = Runs(w)
    BY <1>1 DEF Runs
  <2> QED BY <1>1, <2>1, <2>2, <2>3, QueueKept
<1>4. Counted' /\ ToldOnce'
  BY <1>1, NothingTold
<1>5. ASSUME /\ idx' \in [PoolCalls -> Nat \ {0}] /\ yielded' \in [PoolCalls -> Seq(Nat)] /\ over' \in [PoolCalls -> BOOLEAN]
             /\ timeouts' \in Nat
      PROVE  PoolType'
  BY <1>1, <1>5, SamePlan DEF PoolType, Sentinel
<1> QED BY <1>3, <1>4, <1>5

LEMMA NextResultKeeps ==
    ASSUME PoolInv, NEW c \in PoolCalls, NextResult(c)
    PROVE  PoolInv'
<1>1. /\ UNCHANGED <<queueVars, workVars, submitVars, resultVars>> /\ UNCHANGED <<over, timeouts>>
      /\ howCalled' = howCalled /\ results' = results /\ collection' = collection
  BY DEF NextResult, submitVars, resultVars
<1>2. PICK y, a, at : y = yielded[c] /\ a = NextArgument(c) /\ at = idx[c]
  OBVIOUS
<1>3. /\ at <= howCalled[c].n /\ ~over[c] /\ yielded' = [yielded EXCEPT ![c] = Append(y, a)] /\ idx' = [idx EXCEPT ![c] = at + 1]
      /\ Ordered(c) => results[<<c, at>>] # "no" /\ a = at
      /\ ~Ordered(c) => at <= Len(collection[c]) /\ a = collection[c][at]
  BY <1>2 DEF NextResult, NextReady, NextArgument
<1> USE DEF PoolInv
<1>4. y \in Seq(Nat) /\ at \in Nat \ {0}
  BY <1>2 DEF PoolType
<1>5. a \in Nat /\ (timeouts = 0 => at = Len(y) + 1 /\ (~Ordered(c) => at \in DOMAIN collection[c]))
  <2>1. timeouts = 0 => at = Len(y) + 1
    BY <1>2, <1>3 DEF Iterated
  <2>2. CASE Ordered(c)
    BY <1>3, <1>4, <2>1, <2>2
  <2>3. CASE ~Ordered(c)
    <3>1. collection[c] \in Seq(Nat) /\ DOMAIN collection[c] = 1..Len(collection[c]) /\ Len(collection[c]) \in Nat
      BY PoolLists
    <3>2. at # 0
      BY <1>4
    <3>3. at >= 1 => at \in DOMAIN collection[c] /\ a \in Nat
      BY <1>3, <1>4, <2>3, <3>1
    <3>4. Len(y) \in Nat
      BY <1>4
    <3> QED BY <1>4, <2>1, <3>2, <3>3, <3>4
  <2> QED BY <2>2, <2>3
<1>6. /\ Append(y, a) \in Seq(Nat) /\ DOMAIN Append(y, a) = DOMAIN y \cup {Len(y) + 1} /\ Len(y) \in Nat /\ Len(y) + 1 \notin DOMAIN y
      /\ Append(y, a)[Len(y) + 1] = a
      /\ \A i \in DOMAIN y : Append(y, a)[i] = y[i]
      /\ Len(Append(y, a)) = Len(y) + 1
  BY <1>4, <1>5, OneMore
<1>7. PICK z : z = Append(y, a)
  OBVIOUS
<1>8. /\ idx' \in [PoolCalls -> Nat \ {0}] /\ yielded' \in [PoolCalls -> Seq(Nat)]
      /\ idx'[c] = at + 1 /\ yielded'[c] = z
      /\ \A d \in PoolCalls : d # c => idx'[d] = idx[d] /\ yielded'[d] = yielded[d]
  BY <1>3, <1>4, <1>6, <1>7 DEF PoolType
<1>9. PoolType' /\ OnePlaceEach' /\ NotRun' /\ Counted' /\ ToldOnce'
  <2>1. over' \in [PoolCalls -> BOOLEAN] /\ timeouts' \in Nat
    BY <1>1 DEF PoolType
  <2> HIDE DEF PoolInv
  <2> QED BY <1>1, <1>8, <2>1, OnlyIterators
<1>10. Iterated'
  <2> SUFFICES ASSUME timeouts = 0, NEW d \in PoolCalls
               PROVE  /\ idx'[d] = IF over[d] THEN 1 ELSE Len(yielded'[d]) + 1
                      /\ Len(yielded'[d]) <= howCalled[d].n /\ (over[d] => Len(yielded'[d]) = howCalled[d].n)
                      /\ \A i \in DOMAIN yielded'[d] :
                          IF Ordered(d) THEN yielded'[d][i] = i /\ results[<<d, i>>] # "no"
                          ELSE i \in DOMAIN collection[d] /\ yielded'[d][i] = collection[d][i]
    BY <1>1, SamePlan DEF Iterated
  <2>1. CASE d # c
    BY ZenonT(30), <1>8, <2>1 DEF Iterated
  <2>2. CASE d = c
    <3>1. at = Len(y) + 1 /\ (~Ordered(c) => at \in DOMAIN collection[c])
      BY <1>5
    <3>2. idx'[c] = Len(z) + 1 /\ Len(z) <= howCalled[c].n
      BY <1>3, <1>6, <1>7, <1>8, <3>1
    <3>3. \A i \in DOMAIN y :
              IF Ordered(c) THEN y[i] = i /\ results[<<c, i>>] # "no"
              ELSE i \in DOMAIN collection[c] /\ y[i] = collection[c][i]
      BY <1>2 DEF Iterated
    <3>4. \A i \in DOMAIN z :
              IF Ordered(c) THEN z[i] = i /\ results[<<c, i>>] # "no"
              ELSE i \in DOMAIN collection[c] /\ z[i] = collection[c][i]
      BY <1>3, <1>6, <1>7, <3>1, <3>3
    <3> QED BY <1>3, <1>8, <2>2, <3>2, <3>4
  <2> QED BY <2>1, <2>2
<1> QED BY <1>9, <1>10

LEMMA StopIterationKeeps ==
    ASSUME PoolInv, NEW c \in PoolCalls, StopIteration(c)
    PROVE  PoolInv'
<1>1. /\ UNCHANGED <<queueVars, workVars, submitVars, resultVars>> /\ UNCHANGED <<yielded, timeouts>>
      /\ howCalled' = howCalled /\ results' = results /\ collection' = collection
      /\ idx[c] > howCalled[c].n /\ ~over[c]
      /\ over' = [over EXCEPT ![c] = TRUE] /\ idx' = [idx EXCEPT ![c] = 1]
  BY DEF StopIteration, submitVars, resultVars
<1>2. /\ over' \in [PoolCalls -> BOOLEAN] /\ idx' \in [PoolCalls -> Nat \ {0}] /\ idx'[c] = 1 /\ over'[c]
      /\ \A d \in PoolCalls : d # c => idx'[d] = idx[d] /\ over'[d] = over[d]
  BY <1>1 DEF PoolInv, PoolType
<1>3. PoolType' /\ OnePlaceEach' /\ NotRun' /\ Counted' /\ ToldOnce'
  <2>1. yielded' \in [PoolCalls -> Seq(Nat)] /\ timeouts' \in Nat
    BY <1>1 DEF PoolInv, PoolType
  <2> QED BY <1>1, <1>2, <2>1, OnlyIterators
<1> USE DEF PoolInv
<1>4. Iterated'
  <2> SUFFICES ASSUME timeouts = 0, NEW d \in PoolCalls
               PROVE  /\ idx'[d] = IF over'[d] THEN 1 ELSE Len(yielded[d]) + 1
                      /\ Len(yielded[d]) <= howCalled[d].n /\ (over'[d] => Len(yielded[d]) = howCalled[d].n)
                      /\ \A i \in DOMAIN yielded[d] :
                          IF Ordered(d) THEN yielded[d][i] = i /\ results[<<d, i>>] # "no"
                          ELSE i \in DOMAIN collection[d] /\ yielded[d][i] = collection[d][i]
    BY <1>1, SamePlan DEF Iterated
  <2>1. CASE d # c
    BY <1>2, <2>1 DEF Iterated
  <2>2. CASE d = c
    <3>1. idx[c] = Len(yielded[c]) + 1 /\ Len(yielded[c]) <= howCalled[c].n
      BY <1>1 DEF Iterated
    <3>2. Len(yielded[c]) \in Nat /\ howCalled[c].n \in Nat
      BY PoolLists, PlanType
    <3>3. Len(yielded[c]) = howCalled[c].n
      BY <1>1, <3>1, <3>2
    <3> QED BY <1>2, <2>2, <3>1, <3>3 DEF Iterated
  <2> QED BY <2>1, <2>2
<1> QED BY <1>3, <1>4

LEMMA NextTimesOutKeeps ==
    ASSUME PoolInv, NEW c \in PoolCalls, NextTimesOut(c)
    PROVE  PoolInv'
<1>1. /\ UNCHANGED <<queueVars, workVars, submitVars, resultVars>> /\ UNCHANGED <<yielded, over>>
      /\ timeouts' = timeouts + 1 /\ idx' = [idx EXCEPT ![c] = IF Ordered(c) THEN @ + 1 ELSE 1]
  BY DEF NextTimesOut
<1>2. over' \in [PoolCalls -> BOOLEAN] /\ yielded' \in [PoolCalls -> Seq(Nat)] /\ timeouts' \in Nat /\ timeouts' # 0
  BY <1>1 DEF PoolInv, PoolType
<1>3. idx' \in [PoolCalls -> Nat \ {0}]
  <2>1. idx \in [PoolCalls -> Nat \ {0}]
    BY DEF PoolInv, PoolType
  <2>2. (IF Ordered(c) THEN idx[c] + 1 ELSE 1) \in Nat \ {0}
    BY <2>1
  <2>3. idx' = [idx EXCEPT ![c] = IF Ordered(c) THEN idx[c] + 1 ELSE 1]
    BY <1>1
  <2> QED BY <2>1, <2>2, <2>3
<1>4. Iterated'
  BY <1>2 DEF Iterated
<1> QED BY <1>1, <1>2, <1>3, <1>4, OnlyIterators DEF PoolInv

-----------------------------------------------------------------------------
LEMMA KillerKeeps ==
    ASSUME PoolInv, Killer
    PROVE  PoolInv'
<1> USE DEF PoolInv
<1>1. UNCHANGED <<workVars, submitVars, resultVars, iterVars>>
  BY DEF Killer, Close, DrainOne, PutSentinels, Join
<1>2. /\ howCalled' = howCalled /\ UNCHANGED iterVars
      /\ UNCHANGED <<toPut, callPc, unit, workerPc, results, remaining, collection, outer, outerSets>>
      /\ UNCHANGED <<idx, yielded, over, timeouts>>
  BY <1>1 DEF workVars, submitVars, resultVars, iterVars
<1>3. \A w \in PoolWorkers : Runs(w)' = Runs(w)
  BY <1>2 DEF Runs
<1>4. Counted' /\ ToldOnce' /\ Iterated'
  BY <1>2, NothingTold, IteratedKept
<1>5. workq' \in Seq(Seq(AllJobs) \cup {Sentinel}) /\ OnePlaceEach' /\ NotRun'
  <2>1. CASE workq' = workq
    <3>1. PICK f : f = [q \in DOMAIN workq |-> q]
      OBVIOUS
    <3>2. \A q \in DOMAIN workq' : QueueFrom(f, q)
      BY <2>1, <3>1 DEF QueueFrom, OnePlaceEach
    <3>3. \A q, r \in DOMAIN workq' : q # r => f[q] # f[r]
      BY <2>1, <3>1
    <3>4. workq' \in Seq(Seq(AllJobs) \cup {Sentinel})
      BY <2>1 DEF PoolType
    <3> QED BY <1>2, <1>3, <3>2, <3>3, <3>4, QueueKept
  <2>2. CASE workq # <<>> /\ workq' = Tail(workq)
    BY <1>2, <1>3, <2>2, QueueShorter, QueueShorterKeeps
  <2>3. CASE PutSentinels
    <3> DEFINE S == Seq(AllJobs) \cup {Sentinel}
    <3>1. PICK more, n : more = [i \in 1..n |-> Sentinel] /\ n = SentinelCount
      OBVIOUS
    <3>2. n \in Nat
      BY <3>1, PoolAssumption, FS_CardinalityType DEF SentinelCount, OnePerWorker
    <3>3. more \in Seq(S) /\ Len(more) = n /\ \A i \in 1..n : more[i] = Sentinel
      BY <3>1, <3>2
    <3>4. workq \in Seq(S) /\ Len(workq) \in Nat /\ DOMAIN workq = 1..Len(workq)
      BY PoolLists DEF PoolType
    <3>5. Sentinel = <<<<"QUIT", 0>>>>
      BY DEF Sentinel
    <3>6. OnceEach(Sentinel) /\ JobsIn(Sentinel) \cap AllJobs = {}
      <4>1. <<"QUIT", 0>> \notin AllJobs
        BY PlanType DEF AllJobs, JobsOf
      <4>2. DOMAIN Sentinel = {1} /\ Sentinel[1] = <<"QUIT", 0>>
        BY <3>5
      <4> QED BY <4>1, <4>2 DEF OnceEach, JobsIn
    <3> HIDE DEF S
    <3>7. workq' = workq \o more
      BY <2>3, <3>1 DEF PutSentinels
    <3>8. /\ workq' \in Seq(S) /\ Len(workq') = Len(workq) + Len(more)
          /\ \A q \in 1 .. Len(workq) + Len(more) : workq'[q] = IF q <= Len(workq) THEN workq[q] ELSE more[q - Len(workq)]
      BY <3>3, <3>4, <3>7, ConcatProperties
    <3>9. DOMAIN workq' = 1..(Len(workq) + n)
      <4>1. \A s \in Seq(S) : DOMAIN s = 1..Len(s)
        OBVIOUS
      <4> QED BY <3>3, <3>8, <4>1
    <3>10. PICK f : f = [q \in DOMAIN workq' |-> q]
      OBVIOUS
    <3>11. \A q \in DOMAIN workq' : QueueFrom(f, q)
      <4> TAKE q \in DOMAIN workq'
      <4>1. CASE q \in DOMAIN workq
        <5>1. workq'[q] = workq[q]
          BY <3>2, <3>3, <3>4, <3>8, <3>9, <4>1
        <5>2. f[q] = q /\ OnceEach(workq[q])
          BY <3>10, <4>1 DEF OnePlaceEach
        <5> QED BY <4>1, <5>1, <5>2 DEF QueueFrom
      <4>2. CASE q \notin DOMAIN workq
        <5>1. ~(q <= Len(workq)) /\ q - Len(workq) \in 1..n
          BY <3>2, <3>4, <3>9, <4>2
        <5>2. workq'[q] = Sentinel
          BY <3>2, <3>3, <3>8, <3>9, <5>1
        <5> QED BY <3>6, <5>2 DEF QueueFrom
      <4> QED BY <4>1, <4>2
    <3>12. \A q, r \in DOMAIN workq' : q # r => f[q] # f[r]
      BY <3>10
    <3>13. OnePlaceEach' /\ NotRun'
      BY <1>2, <1>3, <3>11, <3>12, QueueKept
    <3> QED BY <3>8, <3>13 DEF S
  <2> QED BY <2>1, <2>2, <2>3 DEF Killer, Close, DrainOne, Join, queueVars
<1>6. PoolType'
  BY <1>2, <1>5, SamePlan DEF PoolType, Sentinel
<1> QED BY <1>4, <1>5, <1>6

LEMMA PoolStep == PoolInv /\ [PoolNext]_poolVars => PoolInv'
<1> SUFFICES ASSUME PoolInv, [PoolNext]_poolVars PROVE PoolInv'
  OBVIOUS
<1>1. CASE UNCHANGED poolVars
  <2>1. UNCHANGED <<queueVars, workVars, submitVars, resultVars>> /\ UNCHANGED iterVars
    BY <1>1 DEF poolVars
  <2>2. UNCHANGED <<idx, yielded, over, timeouts>> /\ howCalled' = howCalled /\ results' = results /\ collection' = collection
    BY <2>1 DEF iterVars, submitVars, resultVars
  <2>3. /\ idx' \in [PoolCalls -> Nat \ {0}] /\ yielded' \in [PoolCalls -> Seq(Nat)] /\ over' \in [PoolCalls -> BOOLEAN]
        /\ timeouts' \in Nat
    BY <2>2 DEF PoolInv, PoolType
  <2>4. PoolType' /\ OnePlaceEach' /\ NotRun' /\ Counted' /\ ToldOnce'
    BY <2>1, <2>3, OnlyIterators
  <2>5. PoolType /\ Iterated
    BY DEF PoolInv
  <2>6. Iterated'
    BY <2>1, <2>2, <2>5, IteratedKept
  <2> QED BY <2>4, <2>6 DEF PoolInv
<1>2. ASSUME NEW w \in PoolWorkers, WorkerStep(w) PROVE PoolInv'
  BY <1>2, GetUnitKeeps, ProcessJobKeeps, NotifyKeeps, TellOuterKeeps DEF WorkerStep
<1>3. ASSUME NEW c \in PoolCalls, CallerStep(c) PROVE PoolInv'
  BY <1>3, CallKeeps, PutUnitKeeps, NextResultKeeps, StopIterationKeeps, NextTimesOutKeeps DEF CallerStep
<1>4. CASE Killer
  BY <1>4, KillerKeeps
<1> QED BY <1>1, <1>2, <1>3, <1>4 DEF PoolNext

\* What was told, and what the iterators gave, is what the callers are promised.
LEMMA PoolPromises == PoolInv => ResultsInOrder
<1> SUFFICES ASSUME PoolInv, NEW c \in PoolCalls
             PROVE  /\ outerSets[c] <= 1
                    /\ outer[c] \in {"list", "exception"} => AllReady(c)
                    /\ outer[c] = "iterator" => \E j \in JobsOf(c) : results[j] # "no"
                    /\ timeouts = 0 =>
                        /\ \A i \in DOMAIN yielded[c] : results[<<c, yielded[c][i]>>] # "no"
                        /\ \A i, j \in DOMAIN yielded[c] : i < j =>
                              IF Ordered(c) THEN yielded[c][i] < yielded[c][j] ELSE yielded[c][i] # yielded[c][j]
                        /\ over[c] => Len(yielded[c]) = howCalled[c].n
  BY DEF ResultsInOrder
<1> USE DEF PoolInv
<1>1. \A j \in JobsOf(c) : j \notin Unnotified(c) => results[j] # "no"
  BY DEF Unnotified
<1>2. outerSets[c] <= 1 /\ (outer[c] # "no" => outerSets[c] = 1)
  BY DEF ToldOnce
<1>3. outer[c] # "no" => \/ KindOf(c) = "map" /\ Unnotified(c) = {}
                         \/ KindOf(c) = "imap_async" /\ Unnotified(c) # JobsOf(c)
                         \/ KindOf(c) = "unordered_async" /\ collection[c] # <<>>
  BY <1>2 DEF ToldOnce, Told
<1>4. outer[c] \in {"list", "exception"} => AllReady(c)
  BY <1>1, <1>3 DEF ToldOnce, AllReady
<1>5. outer[c] = "iterator" => \E j \in JobsOf(c) : results[j] # "no"
  <2> HAVE outer[c] = "iterator"
  <2>1. KindOf(c) # "map"
    BY DEF ToldOnce
  <2>2. CASE Unnotified(c) # JobsOf(c)
    BY <1>1, <2>2 DEF Unnotified
  <2>3. CASE KindOf(c) = "unordered_async" /\ collection[c] # <<>>
    <3>1. 1 \in DOMAIN collection[c]
      <4>1. \A s \in Seq(Nat) : s # <<>> => 1 \in DOMAIN s
        BY RestOfUnit
      <4> QED BY <2>3, <4>1, PoolLists
    <3>2. <<c, collection[c][1]>> \in JobsOf(c) \ Unnotified(c)
      BY <2>3, <3>1 DEF Counted, Ordered
    <3> QED BY <1>1, <3>2
  <2> QED BY <1>3, <2>1, <2>2, <2>3
<1>6. timeouts = 0 =>
        /\ \A i \in DOMAIN yielded[c] : results[<<c, yielded[c][i]>>] # "no"
        /\ \A i, j \in DOMAIN yielded[c] : i < j =>
              IF Ordered(c) THEN yielded[c][i] < yielded[c][j] ELSE yielded[c][i] # yielded[c][j]
        /\ over[c] => Len(yielded[c]) = howCalled[c].n
  <2> HAVE timeouts = 0
  <2>1. over[c] => Len(yielded[c]) = howCalled[c].n
    BY DEF Iterated
  <2>2. \A i, j \in DOMAIN yielded[c] : i < j => i # j
    BY PoolLists
  <2>3. CASE Ordered(c)
    BY <2>1, <2>3 DEF Iterated
  <2>4. CASE ~Ordered(c)
    <3>1. \A i \in DOMAIN yielded[c] : i \in DOMAIN collection[c] /\ yielded[c][i] = collection[c][i]
      BY <2>4 DEF Iterated
    <3>2. /\ \A i \in DOMAIN collection[c] : <<c, collection[c][i]>> \in JobsOf(c) \ Unnotified(c)
          /\ OnceEach(collection[c])
      BY <2>4 DEF Counted
    <3>3. \A i \in DOMAIN yielded[c] : results[<<c, yielded[c][i]>>] # "no"
      BY <1>1, <3>1, <3>2
    <3>4. \A i, j \in DOMAIN yielded[c] : i < j => yielded[c][i] # yielded[c][j]
      BY <2>2, <3>1, <3>2 DEF OnceEach
    <3> QED BY <2>1, <2>4, <3>3, <3>4
  <2> QED BY <2>3, <2>4
<1> QED BY <1>2, <1>4, <1>5, <1>6

\* The safety half of PoolServes: the result of a call is set once, a list when every
\* job of it has its result and an iterator when one has; and an iterator that never
\* timed out gives the results once and in order, whichever threads run the jobs and
\* whenever terminate() is called.
THEOREM PoolCorrect == PoolSpec => []ResultsInOrder
<1>1. PoolInit => PoolInv
  BY PoolInitially
<1>2. PoolInv /\ [PoolNext]_poolVars => PoolInv'
  BY PoolStep
<1>3. PoolInv => ResultsInOrder
  BY PoolPromises
<1> QED BY <1>1, <1>2, <1>3, PTL DEF PoolSpec

-----------------------------------------------------------------------------
(* LeaderElector                                                             *)

USE LeaderElectorAssumption

-----------------------------------------------------------------------------
(* Type correctness *)

LEMMA AgeTypes ==
    /\ 0 \in Ages /\ NoAge \notin Ages
    /\ \A age \in Ages \cup {NoAge} : Older(age) \in Ages \cup {NoAge}
    /\ \A age \in Ages : Older(age) \in Ages
  BY DEF Older, Ages, NoAge

LEMMA LockFields ==
    ASSUME NEW creators, NEW age
    PROVE  Lock(creators, age).creator = creators /\ Lock(creators, age).age = age
  BY DEF Lock

LEMMA NoLock == NoCM.creator = {} /\ NoCM.age = NoAge
  BY DEF NoCM

LEMMA LockAge == LockType /\ cm # NoCM => cm.age \in Ages
<1> SUFFICES ASSUME LockType, cm # NoCM PROVE cm.age \in Ages
  OBVIOUS
<1>1. PICK n \in Nodes, age \in Ages : cm = Lock({n}, age)
  BY DEF LockType
<1> QED
  BY <1>1, LockFields

LEMMA SameLock == LockType /\ UNCHANGED <<cm, malformed>> => LockType'
  BY DEF LockType

LEMMA WrittenLock ==
    ASSUME LockType, NEW n \in Nodes, Written(n), ~malformed, stamp[n] \in Ages
    PROVE  LockType'
  BY DEF Written, LockType

LEMMA InitType == Init => TypeOK
<1> SUFFICES ASSUME Init PROVE TypeOK
  OBVIOUS
<1>1. LockType
  BY DEF Init, LockType
<1>2. AgentsType
  BY DEF Init, AgentsType
<1> QED
  BY <1>1, <1>2 DEF Init, TypeOK

\* One request's answer, or a failure, changes the agent in one of two ways.
LEMMA ElectedType ==
    ASSUME AgentsType, NEW n \in Nodes, NEW leader \in BOOLEAN,
           Elected(n, leader)
    PROVE  /\ isLeader' \in [Nodes -> BOOLEAN]
           /\ pc' \in [Nodes -> {"idle", "get", "delete", "create", "update"}]
           /\ pc'[n] = "idle" /\ \A m \in Nodes \ {n} : pc'[m] = pc[m]
  BY DEF AgentsType, Elected

LEMMA RequestType ==
    ASSUME AgentsType, NEW n \in Nodes,
           NEW request \in {"delete", "create", "update"}, Request(n, request)
    PROVE  /\ pc' \in [Nodes -> {"idle", "get", "delete", "create", "update"}]
           /\ stamp' \in [Nodes -> Ages \cup {NoAge}]
           /\ stamp'[n] \in Ages
           /\ \A m \in Nodes \ {n} : pc'[m] = pc[m] /\ stamp'[m] = stamp[m]
  BY AgeTypes DEF AgentsType, Request

LEMMA HoldsFromType ==
    ASSUME AgentsType, NEW n \in Nodes, HoldsFrom(n)
    PROVE  lastAcquire' \in [Nodes -> Ages \cup {NoAge}]
  BY DEF AgentsType, HoldsFrom

LEMMA GetType ==
    ASSUME TypeOK, NEW n \in Nodes, Get(n)
    PROVE  TypeOK'
<1> USE DEF TypeOK
<1>1. ASSUME GetLock(n)
      PROVE  lastAcquire' \in [Nodes -> Ages \cup {NoAge}] /\ UNCHANGED <<cm, malformed, faults>>
  BY <1>1, LockAge DEF GetLock, AgentsType
<1>2. CASE GetExpired(n)
  BY <1>1, <1>2, SameLock, RequestType DEF GetExpired, AgentsType
<1>3. CASE GetMineToRefresh(n)
  BY <1>1, <1>3, SameLock, RequestType DEF GetMineToRefresh, AgentsType
<1>4. CASE GetMineToAcquire(n)
  BY <1>1, <1>4, SameLock, ElectedType DEF GetMineToAcquire, AgentsType
<1>5. CASE GetOthers(n)
  BY <1>1, <1>5, SameLock, ElectedType DEF GetOthers, AgentsType
<1>6. CASE GetMalformed(n)
  BY <1>6, SameLock, ElectedType DEF GetMalformed, AgentsType
<1>7. CASE GetNone(n)
  BY <1>7, SameLock, RequestType DEF GetNone, AgentsType
<1> QED
  BY <1>2, <1>3, <1>4, <1>5, <1>6, <1>7 DEF Get

LEMMA WriteType ==
    ASSUME TypeOK, NEW n \in Nodes, Write(n)
    PROVE  TypeOK'
<1> USE DEF TypeOK
<1>1. CASE Delete(n)
  <2>1. LockType'
    BY <1>1 DEF Delete, LockType
  <2> QED
    BY <1>1, <2>1 DEF Delete, AgentsType
<1>2. CASE Create(n)
  <2>1. LockType'
    BY <1>2, WrittenLock DEF Create, Absent
  <2>2. AgentsType'
    BY <1>2, ElectedType, HoldsFromType DEF Create, AgentsType
  <2> QED
    BY <1>2, <2>1, <2>2, ElectedType DEF Create
<1>3. CASE CreateConflict(n)
  BY <1>3, SameLock, ElectedType DEF CreateConflict, AgentsType
<1>4. CASE Update(n)
  <2>1. LockType'
    BY <1>4, WrittenLock DEF Update, LockType
  <2>2. AgentsType'
    BY <1>4, ElectedType, HoldsFromType DEF Update, AgentsType
  <2> QED
    BY <1>4, <2>1, <2>2, ElectedType DEF Update
<1>5. CASE UpdateNone(n)
  BY <1>5, SameLock, ElectedType DEF UpdateNone, AgentsType
<1> QED
  BY <1>1, <1>2, <1>3, <1>4, <1>5 DEF Write

LEMMA FaultCount == TypeOK /\ Fault => faults' \in Nat
  BY DEF TypeOK, Fault

LEMMA FaultType ==
    ASSUME TypeOK, NEW n \in Nodes,
           GetError(n) \/ RequestFails(n) \/ Restart(n)
    PROVE  TypeOK'
<1> USE DEF TypeOK
<1> faults' \in Nat
  BY FaultCount DEF GetError, RequestFails, Restart
<1>1. CASE GetError(n)
  BY <1>1, SameLock, RequestType DEF GetError, AgentsType
<1>2. CASE RequestFails(n)
  <2>1. CASE UNCHANGED <<cm, malformed>>
    BY <1>2, <2>1, SameLock, ElectedType DEF RequestFails, AgentsType
  <2>2. CASE cm' = NoCM /\ malformed' = FALSE
    <3>1. LockType'
      BY <2>2 DEF LockType
    <3> QED
      BY <1>2, <3>1, ElectedType DEF RequestFails, AgentsType
  <2>3. CASE Written(n) /\ ~malformed /\ stamp[n] \in Ages
    BY <1>2, <2>3, WrittenLock, ElectedType DEF RequestFails, AgentsType
  <2>4. pc[n] = "update" /\ cm # NoCM => ~malformed
    BY DEF LockType
  <2> QED
    BY <1>2, <2>1, <2>2, <2>3, <2>4 DEF RequestFails, Absent
<1>3. CASE Restart(n)
  <2>1. /\ lastAcquire' \in [Nodes -> Ages \cup {NoAge}]
        /\ stamp' \in [Nodes -> Ages \cup {NoAge}]
        /\ \A m \in Nodes \ {n} : stamp'[m] = stamp[m]
    BY <1>3 DEF Restart, AgentsType
  <2> QED
    BY <1>3, <2>1, SameLock, ElectedType DEF Restart, AgentsType
<1> QED
  BY <1>1, <1>2, <1>3

LEMMA TickType ==
    ASSUME TypeOK, Tick
    PROVE  TypeOK'
<1>1. LockType'
  <2>1. CASE cm = NoCM
    BY <2>1 DEF Tick, NoCM, Older, TypeOK, LockType
  <2>2. CASE \E m \in Nodes, age \in Ages : cm = Lock({m}, age)
    <3>1. PICK m \in Nodes, age \in Ages : cm = Lock({m}, age)
      BY <2>2
    <3>2. cm' = Lock({m}, Older(age))
      BY <3>1 DEF Tick, Lock
    <3>3. cm # NoCM
      BY <3>1, LockFields, NoLock
    <3>4. malformed' = FALSE
      BY <3>3 DEF Tick, TypeOK, LockType
    <3> QED
      BY <3>2, <3>4, AgeTypes DEF LockType
  <2> QED
    BY <2>1, <2>2 DEF TypeOK, LockType
<1>2. AgentsType'
  BY AgeTypes DEF Tick, TypeOK, AgentsType
<1>3. \A n \in Nodes : stamp[n] \in Ages => stamp'[n] \in Ages
  BY AgeTypes DEF Tick
<1> QED
  BY <1>1, <1>2, <1>3 DEF Tick, TypeOK

LEMMA StepType == TypeOK /\ [Next]_vars => TypeOK'
<1> SUFFICES ASSUME TypeOK, [Next]_vars PROVE TypeOK'
  OBVIOUS
<1>1. ASSUME NEW n \in Nodes, TryAcquireOrRefresh(n) PROVE TypeOK'
  BY <1>1, SameLock DEF TryAcquireOrRefresh, TypeOK, AgentsType
<1>2. CASE UNCHANGED vars
  BY <1>2, SameLock DEF vars, agentVars, TypeOK, AgentsType
<1> QED
  BY <1>1, <1>2, GetType, WriteType, FaultType, TickType DEF Next

\* Every variable keeps its type, and only dated locks are written.
THEOREM TypeCorrect == Spec => []TypeOK
  BY InitType, StepType, PTL DEF Spec

-----------------------------------------------------------------------------
(* The leader knows the age of its lock *)

LEMMA InitLease == Init => LeaderKnowsItsLease
  BY DEF Init, LeaderKnowsItsLease

\* The call of agent n ends without a new lock: others are not concerned.
LEMMA LeaseKept ==
    ASSUME TypeOK, LeaderKnowsItsLease, NEW n \in Nodes,
           cm' = cm,
           isLeader'[n] => lastAcquire'[n] = cm.age,
           \A m \in Nodes \ {n} : isLeader'[m] = isLeader[m] /\ lastAcquire'[m] = lastAcquire[m]
    PROVE  LeaderKnowsItsLease'
  BY DEF LeaderKnowsItsLease

\* The lock goes, or is written by n, which is not the leader or dates it.
LEMMA LeaseTaken ==
    ASSUME TypeOK, LeaderKnowsItsLease, NEW n \in Nodes, Written(n),
           isLeader'[n] => lastAcquire'[n] = stamp[n]
    PROVE  LeaderKnowsItsLease'
<1> SUFFICES ASSUME NEW m \in Nodes, isLeader'[m], cm'.creator = {m}
             PROVE  lastAcquire'[m] = cm'.age
  BY DEF LeaderKnowsItsLease
<1>1. cm'.creator = {n} /\ cm'.age = stamp[n]
  BY LockFields DEF Written
<1>2. m = n
  BY <1>1
<1> QED
  BY <1>1, <1>2

LEMMA LeaseGone ==
    ASSUME cm' = NoCM
    PROVE  LeaderKnowsItsLease'
<1>1. \A n \in Nodes : cm'.creator # {n}
  BY DEF NoCM
<1> QED
  BY <1>1 DEF LeaderKnowsItsLease

LEMMA StepLease == TypeOK /\ LeaderKnowsItsLease /\ [Next]_vars => LeaderKnowsItsLease'
<1> SUFFICES ASSUME TypeOK, LeaderKnowsItsLease, [Next]_vars
             PROVE  LeaderKnowsItsLease'
  OBVIOUS
<1> USE DEF TypeOK, AgentsType
<1>1. ASSUME NEW n \in Nodes, TryAcquireOrRefresh(n) PROVE LeaderKnowsItsLease'
  BY <1>1 DEF TryAcquireOrRefresh, LeaderKnowsItsLease
<1>2. ASSUME NEW n \in Nodes, Get(n) PROVE LeaderKnowsItsLease'
  <2>1. ASSUME GetLock(n)
        PROVE  /\ cm' = cm /\ lastAcquire'[n] = cm.age
               /\ \A m \in Nodes \ {n} : lastAcquire'[m] = lastAcquire[m]
    BY <2>1 DEF GetLock
  <2>2. CASE GetExpired(n) \/ GetMineToRefresh(n)
    BY <2>1, <2>2, LeaseKept DEF GetExpired, GetMineToRefresh
  <2>3. CASE GetMineToAcquire(n) \/ GetOthers(n)
    <3>1. \A m \in Nodes \ {n} : isLeader'[m] = isLeader[m]
      BY <2>3 DEF GetMineToAcquire, GetOthers, Elected
    <3> QED
      BY <2>1, <2>3, <3>1, LeaseKept DEF GetMineToAcquire, GetOthers
  <2>4. CASE GetMalformed(n)
    BY <2>4, LeaseKept DEF GetMalformed, Elected
  <2>5. CASE GetNone(n)
    BY <2>5 DEF GetNone, LeaderKnowsItsLease
  <2> QED
    BY <1>2, <2>2, <2>3, <2>4, <2>5 DEF Get
<1>3. ASSUME NEW n \in Nodes, Write(n) PROVE LeaderKnowsItsLease'
  <2>1. CASE Delete(n)
    BY <2>1, LeaseGone DEF Delete
  <2>2. CASE Create(n) \/ Update(n)
    <3>1. Written(n) /\ lastAcquire'[n] = stamp[n]
      BY <2>2 DEF Create, Update, HoldsFrom
    <3> QED
      BY <3>1, LeaseTaken
  <2>3. CASE CreateConflict(n) \/ UpdateNone(n)
    BY <2>3, LeaseKept DEF CreateConflict, UpdateNone, Elected
  <2> QED
    BY <1>3, <2>1, <2>2, <2>3 DEF Write
<1>4. ASSUME NEW n \in Nodes, GetError(n) PROVE LeaderKnowsItsLease'
  BY <1>4 DEF GetError, LeaderKnowsItsLease
<1>5. ASSUME NEW n \in Nodes, RequestFails(n) PROVE LeaderKnowsItsLease'
  <2>1. ~isLeader'[n] /\ \A m \in Nodes \ {n} : isLeader'[m] = isLeader[m]
    BY <1>5 DEF RequestFails, Elected
  <2>2. CASE cm' = cm
    BY <1>5, <2>1, <2>2, LeaseKept DEF RequestFails
  <2>3. CASE cm' = NoCM
    BY <2>3, LeaseGone
  <2>4. CASE Written(n)
    BY <2>1, <2>4, LeaseTaken
  <2> QED
    BY <1>5, <2>2, <2>3, <2>4 DEF RequestFails
<1>6. ASSUME NEW n \in Nodes, Restart(n) PROVE LeaderKnowsItsLease'
  <2>1. ~isLeader'[n] /\ \A m \in Nodes \ {n} : isLeader'[m] = isLeader[m]
    BY <1>6 DEF Restart, Elected
  <2>2. \A m \in Nodes \ {n} : lastAcquire'[m] = lastAcquire[m]
    BY <1>6 DEF Restart
  <2> QED
    BY <1>6, <2>1, <2>2, LeaseKept DEF Restart
<1>7. CASE Tick
  <2> SUFFICES ASSUME NEW n \in Nodes, isLeader'[n], cm'.creator = {n}
               PROVE  lastAcquire'[n] = cm'.age
    BY DEF LeaderKnowsItsLease
  <2>1. cm # NoCM
    BY <1>7 DEF Tick, NoCM
  <2>2. PICK m \in Nodes, age \in Ages : cm = Lock({m}, age)
    BY <2>1 DEF LockType
  <2>3. cm'.creator = cm.creator /\ cm'.age = Older(cm.age)
    BY <1>7, <2>2 DEF Tick, Lock
  <2>4. isLeader[n] /\ lastAcquire'[n] = Older(lastAcquire[n])
    BY <1>7 DEF Tick
  <2> QED
    BY <2>3, <2>4 DEF LeaderKnowsItsLease
<1>8. CASE UNCHANGED vars
  BY <1>8 DEF vars, agentVars, LeaderKnowsItsLease
<1> QED
  BY <1>1, <1>2, <1>3, <1>4, <1>5, <1>6, <1>7, <1>8 DEF Next

\* Whatever requests interleave, fail or go unanswered, a leader whose lock is
\* in the API server knows how old it is.
THEOREM LeaseCorrect == Spec => []LeasesKnown
<1>1. Init => TypeOK /\ LeaderKnowsItsLease
  BY InitType, InitLease
<1>2. (TypeOK /\ LeaderKnowsItsLease) /\ [Next]_vars => (TypeOK /\ LeaderKnowsItsLease)'
  BY StepType, StepLease
<1>3. TypeOK /\ LeaderKnowsItsLease => LeasesKnown
  BY DEF LeasesKnown
<1> QED
  BY <1>1, <1>2, <1>3, PTL DEF Spec

-----------------------------------------------------------------------------
(* One leader until a lock expires *)

\* Nobody deletes, and whoever leads or refreshes is the creator of the lock.
Undisputed ==
    ~sawExpired =>
        \A n \in Nodes :
            /\ pc[n] # "delete"
            /\ isLeader[n] \/ pc[n] = "update" => cm.creator = {n}

LEMMA InitUndisputed == Init => Undisputed
  BY DEF Init, Undisputed

\* The lock stays, or is written by its creator or in the place of none.
LEMMA UndisputedKept ==
    ASSUME Undisputed, sawExpired' = sawExpired, NEW n \in Nodes,
           cm'.creator = cm.creator,
           pc'[n] # "delete",
           isLeader'[n] \/ pc'[n] = "update" => cm.creator = {n},
           \A m \in Nodes \ {n} : isLeader'[m] = isLeader[m] /\ pc'[m] = pc[m]
    PROVE  Undisputed'
  BY DEF Undisputed

LEMMA UndisputedWritten ==
    ASSUME TypeOK, Undisputed, sawExpired' = sawExpired, NEW n \in Nodes,
           Written(n), pc'[n] = "idle",
           pc[n] = "update" \/ cm = NoCM,
           \A m \in Nodes \ {n} : isLeader'[m] = isLeader[m] /\ pc'[m] = pc[m]
    PROVE  Undisputed'
<1> SUFFICES ASSUME ~sawExpired PROVE Undisputed'
  BY DEF Undisputed
<1>1. cm'.creator = {n}
  BY LockFields DEF Written
<1>2. \A m \in Nodes \ {n} : ~isLeader[m] /\ pc[m] # "update" /\ pc[m] # "delete"
  <2>1. CASE pc[n] = "update"
    BY <2>1 DEF Undisputed
  <2>2. CASE cm = NoCM
    BY <2>2, NoLock DEF Undisputed
  <2> QED
    BY <2>1, <2>2
<1> QED
  BY <1>1, <1>2 DEF Undisputed

LEMMA StepUndisputed == TypeOK /\ Undisputed /\ [Next]_vars => Undisputed'
<1> SUFFICES ASSUME TypeOK, Undisputed, [Next]_vars
             PROVE  Undisputed'
  OBVIOUS
<1> USE DEF TypeOK, AgentsType
<1>1. ASSUME NEW n \in Nodes, TryAcquireOrRefresh(n) PROVE Undisputed'
  BY <1>1 DEF TryAcquireOrRefresh, Undisputed
<1>2. ASSUME NEW n \in Nodes, Get(n) PROVE Undisputed'
  <2>1. CASE GetExpired(n)
    BY <2>1 DEF GetExpired, Undisputed
  <2>2. CASE GetMineToRefresh(n)
    <3>1. /\ pc' = [pc EXCEPT ![n] = "update"] /\ cm' = cm /\ isLeader' = isLeader
          /\ cm.creator = {n} /\ sawExpired' = sawExpired
      BY <2>2 DEF GetMineToRefresh, GetLock, Request
    <3> QED
      BY <3>1 DEF Undisputed
  <2>3. CASE GetMineToAcquire(n)
    BY <2>3, UndisputedKept, ElectedType DEF GetMineToAcquire, GetLock, Elected
  <2>4. CASE GetOthers(n)
    BY <2>4, UndisputedKept, ElectedType DEF GetOthers, GetLock, Elected
  <2>5. CASE GetMalformed(n)
    BY <2>5, UndisputedKept, ElectedType DEF GetMalformed, Elected
  <2>6. CASE GetNone(n)
    <3>1. sawExpired \/ ~isLeader[n]
      BY <2>6, NoLock DEF GetNone, Absent, Undisputed
    <3> QED
      BY <2>6, <3>1 DEF GetNone, Request, Undisputed
  <2> QED
    BY <1>2, <2>1, <2>2, <2>3, <2>4, <2>5, <2>6 DEF Get
<1>3. ASSUME NEW n \in Nodes, Write(n) PROVE Undisputed'
  <2>1. CASE Delete(n)
    BY <2>1 DEF Delete, Undisputed
  <2>2. CASE Create(n) \/ Update(n)
    BY <2>2, UndisputedWritten, ElectedType DEF Create, Update, Absent, Elected
  <2>3. CASE CreateConflict(n) \/ UpdateNone(n)
    BY <2>3, UndisputedKept, ElectedType DEF CreateConflict, UpdateNone, Elected
  <2> QED
    BY <1>3, <2>1, <2>2, <2>3 DEF Write
<1>4. ASSUME NEW n \in Nodes, GetError(n) PROVE Undisputed'
  BY <1>4 DEF GetError, Request, Undisputed
<1>5. ASSUME NEW n \in Nodes, RequestFails(n) PROVE Undisputed'
  <2>1. /\ ~isLeader'[n] /\ pc'[n] = "idle" /\ sawExpired' = sawExpired
        /\ \A m \in Nodes \ {n} : isLeader'[m] = isLeader[m] /\ pc'[m] = pc[m]
    BY <1>5 DEF RequestFails, Elected
  <2>2. CASE cm' = cm
    BY <2>1, <2>2, UndisputedKept
  <2>3. CASE pc[n] = "delete"
    BY <2>1, <2>3 DEF Undisputed
  <2>4. CASE Written(n) /\ (pc[n] = "update" \/ cm = NoCM)
    BY <2>1, <2>4, UndisputedWritten
  <2> QED
    BY <1>5, <2>2, <2>3, <2>4 DEF RequestFails, Absent
<1>6. ASSUME NEW n \in Nodes, Restart(n) PROVE Undisputed'
  BY ZenonT(30), <1>6, UndisputedKept, ElectedType DEF Restart, Elected
<1>7. CASE Tick
  <2>1. cm'.creator = cm.creator
    <3>1. cm' = [cm EXCEPT !.age = Older(cm.age)]
      BY <1>7 DEF Tick
    <3>2. CASE cm = NoCM
      BY <3>1, <3>2 DEF NoCM
    <3>3. CASE \E m \in Nodes, age \in Ages : cm = Lock({m}, age)
      BY <3>1, <3>3 DEF Lock
    <3> QED
      BY <3>2, <3>3 DEF LockType
  <2> QED
    BY <1>7, <2>1 DEF Tick, Undisputed
<1>8. CASE UNCHANGED vars
  BY <1>8 DEF vars, agentVars, Undisputed
<1> QED
  BY <1>1, <1>2, <1>3, <1>4, <1>5, <1>6, <1>7, <1>8 DEF Next

\* Until an agent finds an expired lock, and deletes whatever has taken its
\* place, only the creator of the lock leads.
THEOREM OneLeaderCorrect == Spec => []OneLeaderUntilExpiry
<1>1. Init => TypeOK /\ Undisputed
  BY InitType, InitUndisputed
<1>2. (TypeOK /\ Undisputed) /\ [Next]_vars => (TypeOK /\ Undisputed)'
  BY StepType, StepUndisputed
<1>3. Undisputed => OneLeaderUntilExpiry
  BY DEF Undisputed, OneLeaderUntilExpiry
<1> QED
  BY <1>1, <1>2, <1>3, PTL DEF Spec
=============================================================================
