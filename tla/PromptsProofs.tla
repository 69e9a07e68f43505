---------------------------- MODULE PromptsProofs ----------------------------
(***************************************************************************)
(* What the engines are given and what is made of their output, for any    *)
(* requests, profile, image and raw output: that every row of a prompt     *)
(* arrives, that sam3_nms meets its definition in any order std::sort      *)
(* leaves ties in, and that the loops over a mask measure it.              *)
(***************************************************************************)
EXTENDS Prompts, LoopProofs

-----------------------------------------------------------------------------
(* The invariant.                                                            *)

Box == [x0 : 0 .. 2 * Width, y0 : 0 .. 2 * Height, x1 : 0 .. 2 * Width, y1 : 0 .. 2 * Height]
Detection == [score : Int, box : {b \in Box : b.x0 <= b.x1 /\ b.y0 <= b.y1}]

All == 1 .. Len(dets)
Kept == {keep[n] : n \in 1 .. Len(keep)}
Processed == {order[i] : i \in 1 .. k - 1}

TypeInv ==
    /\ dets \in Seq(Detection) /\ Len(dets) \in Nat
    /\ order \in [All -> All] /\ Len(order) = Len(dets)
    /\ k \in 1 .. Len(dets) + 1
    /\ keep \in Seq(All) /\ suppressed \subseteq All

(* A permutation, the best first.                                            *)
OrderInv ==
    /\ IsInjective(order)
    /\ \A i \in All : \E n \in All : order[n] = i
    /\ \A i \in 1 .. Len(dets) - 1 : dets[order[i]].score >= dets[order[i + 1]].score

(* What is kept was met in that order; nothing met so far is worse than what *)
(* is next.                                                                  *)
KeepInv ==
    /\ Kept \subseteq Processed /\ IsInjective(keep)
    /\ \A m, n \in 1 .. Len(keep) : m < n => dets[keep[m]].score >= dets[keep[n]].score
    /\ \A i \in 1 .. k - 1 : k <= Len(dets) => dets[order[i]].score >= dets[order[k]].score

(* What is suppressed clashes with something kept, and that is no worse than *)
(* it, at the latest when the loop has come to it.                           *)
SuppressInv ==
    /\ Kept \cap suppressed = {} /\ Processed \subseteq Kept \cup suppressed
    /\ \A i \in Kept, j \in All : i # j /\ Clash(i, j) => j \in suppressed
    /\ \A j \in suppressed : \E i \in Kept : Clash(i, j)
    /\ \A j \in suppressed \cap Processed :
          \E i \in Kept : Clash(i, j) /\ dets[i].score >= dets[j].score

NmsInv == TypeInv /\ OrderInv /\ KeepInv /\ SuppressInv

Numbered ==
    /\ k = Len(dets) + 1
    /\ result = [i \in 1 .. Len(keep) |->
                   [score |-> dets[keep[i]].score, box |-> dets[keep[i]].box, instance_id |-> i]]

IInv ==
    /\ at \in {"idle", "pvs", "pcs", "masks", "queries", "nms", "done"}
    /\ at \in {"pvs", "masks"} => request \in PvsRequests
    /\ at \in {"pcs", "queries", "nms"} => request \in PcsRequests
    /\ at = "nms" => NmsInv
    /\ at = "done" => request \in PvsRequests \/ (NmsInv /\ Numbered)
-----------------------------------------------------------------------------
(* Boxes and overlap.                                                        *)

LEMMA ClampInRange ==
    ASSUME NEW x \in Int, NEW y \in Int, NEW hi \in Nat, x <= y
    PROVE  /\ Clamp(x, hi) \in 0 .. hi /\ Clamp(y, hi) \in 0 .. hi
           /\ Clamp(x, hi) <= Clamp(y, hi)
BY DEF Clamp

LEMMA ClampedIsBox ==
    ASSUME NEW b \in Boxes
    PROVE  Clamped(b) \in {c \in Box : c.x0 <= c.x1 /\ c.y0 <= c.y1}
<1>1. /\ b.cx \in Int /\ b.cy \in Int /\ b.w \in Nat /\ b.h \in Nat
      /\ 2 * Width \in Nat /\ 2 * Height \in Nat
      BY RequestsAssumption, SizesAssumption
<1>2. /\ 2 * b.cx - b.w \in Int /\ 2 * b.cx + b.w \in Int /\ 2 * b.cx - b.w <= 2 * b.cx + b.w
      /\ 2 * b.cy - b.h \in Int /\ 2 * b.cy + b.h \in Int /\ 2 * b.cy - b.h <= 2 * b.cy + b.h
      BY <1>1
<1>3. /\ Clamp(2 * b.cx - b.w, 2 * Width) \in 0 .. 2 * Width
      /\ Clamp(2 * b.cx + b.w, 2 * Width) \in 0 .. 2 * Width
      /\ Clamp(2 * b.cx - b.w, 2 * Width) <= Clamp(2 * b.cx + b.w, 2 * Width)
      BY <1>1, <1>2, ClampInRange
<1>4. /\ Clamp(2 * b.cy - b.h, 2 * Height) \in 0 .. 2 * Height
      /\ Clamp(2 * b.cy + b.h, 2 * Height) \in 0 .. 2 * Height
      /\ Clamp(2 * b.cy - b.h, 2 * Height) <= Clamp(2 * b.cy + b.h, 2 * Height)
      BY <1>1, <1>2, ClampInRange
<1> QED BY <1>3, <1>4 DEF Clamped, Box

LEMMA PairBounds ==
    ASSUME NEW x \in Int, NEW y \in Int
    PROVE  Max({x, y}) \in Int /\ Min({x, y}) \in Int
<1>1. \E m \in {x, y} : \A n \in {x, y} : m >= n
  <2>1. CASE x >= y BY <2>1
  <2>2. CASE y >= x BY <2>2
  <2> QED BY <2>1, <2>2
<1>2. \E m \in {x, y} : \A n \in {x, y} : m <= n
  <2>1. CASE x <= y BY <2>1
  <2>2. CASE y <= x BY <2>2
  <2> QED BY <2>1, <2>2
<1>3. Max({x, y}) \in {x, y} BY <1>1 DEF Max
<1>4. Min({x, y}) \in {x, y} BY <1>2 DEF Min
<1> QED BY <1>3, <1>4

LEMMA OverlapSymmetric ==
    ASSUME NEW a \in Box, NEW b \in Box, NEW t
    PROVE  Overlap(a, b, t) = Overlap(b, a, t)
<1>1. Inter(a, b) = Inter(b, a)
  <2>1. {a.x0, b.x0} = {b.x0, a.x0} /\ {a.x1, b.x1} = {b.x1, a.x1} OBVIOUS
  <2>2. {a.y0, b.y0} = {b.y0, a.y0} /\ {a.y1, b.y1} = {b.y1, a.y1} OBVIOUS
  <2> QED BY <2>1, <2>2 DEF Inter
<1>2. Area(a) \in Int /\ Area(b) \in Int BY SizesAssumption DEF Area, Box
<1>3. Inter(a, b) \in Int
  <2>1. /\ a.x0 \in Int /\ b.x0 \in Int /\ a.x1 \in Int /\ b.x1 \in Int
        /\ a.y0 \in Int /\ b.y0 \in Int /\ a.y1 \in Int /\ b.y1 \in Int
        BY SizesAssumption DEF Box
  <2>2. \A x, y \in Int : Length(x, y) \in Int BY DEF Length
  <2>3. /\ Length(Max({a.x0, b.x0}), Min({a.x1, b.x1})) \in Int
        /\ Length(Max({a.y0, b.y0}), Min({a.y1, b.y1})) \in Int
        BY <2>1, <2>2, PairBounds
  <2> QED BY <2>3 DEF Inter
<1>4. Area(a) + Area(b) - Inter(a, b) = Area(b) + Area(a) - Inter(b, a) BY <1>1, <1>2, <1>3
<1> QED BY <1>1, <1>4 DEF Overlap

LEMMA ClashSymmetric ==
    ASSUME dets \in Seq(Detection), NEW i \in All, NEW j \in All
    PROVE  Clash(i, j) = Clash(j, i)
<1>1. dets[i] \in Detection /\ dets[j] \in Detection BY DEF All
<1>2. dets[i].box \in Box /\ dets[j].box \in Box BY <1>1 DEF Detection
<1> QED BY <1>2, OverlapSymmetric DEF Clash

-----------------------------------------------------------------------------
(* The threshold and the sort begin it.                                      *)

LEMMA ThresholdBegins ==
    ASSUME IInv, Threshold
    PROVE  NmsInv'
<1>1. request \in PcsRequests /\ at = "queries" BY DEF IInv, Threshold
<1>2. PICK raw \in [1 .. Queries -> [score : Scores, box : Boxes]] :
         \E pick \in InOrder(Reaching(raw, request.score_threshold)) :
             dets' = [i \in DOMAIN pick |->
                        [score |-> raw[pick[i]].score, box |-> Clamped(raw[pick[i]].box)]]
      BY DEF Threshold
<1> DEFINE S == Reaching(raw, request.score_threshold)
           n == Cardinality(S)
<1>3. PICK pick \in InOrder(S) :
         dets' = [i \in DOMAIN pick |->
                    [score |-> raw[pick[i]].score, box |-> Clamped(raw[pick[i]].box)]]
      BY <1>2
<1>4. S \subseteq 1 .. Queries /\ n \in Nat
  <2>1. S \subseteq 1 .. Queries BY DEF Reaching
  <2>2. IsFiniteSet(1 .. Queries) BY SizesAssumption, FS_Interval
  <2> QED BY <2>1, <2>2, FS_Subset, FS_CardinalityType
<1>5. pick \in [1 .. n -> S] BY DEF InOrder
<1>6. \A i \in 1 .. n : [score |-> raw[pick[i]].score, box |-> Clamped(raw[pick[i]].box)] \in Detection
  <2> SUFFICES ASSUME NEW i \in 1 .. n
               PROVE  [score |-> raw[pick[i]].score, box |-> Clamped(raw[pick[i]].box)] \in Detection
      OBVIOUS
  <2>1. raw[pick[i]].score \in Scores /\ raw[pick[i]].box \in Boxes BY <1>4, <1>5
  <2> QED BY <2>1, ClampedIsBox, RequestsAssumption DEF Detection
<1>7. dets' \in [1 .. n -> Detection] BY <1>3, <1>5, <1>6
<1>8. dets' \in Seq(Detection) /\ Len(dets') = n BY <1>4, <1>7
<1> HIDE DEF S, n
<1>9. PICK p \in Orders(dets') : order' = p BY DEF Threshold
<1>10. /\ order' \in [1 .. n -> 1 .. n] /\ IsInjective(order')
       /\ \A i \in 1 .. n - 1 : dets'[order'[i]].score >= dets'[order'[i + 1]].score
       BY <1>8, <1>9 DEF Orders
<1>11. \A i \in 1 .. n : \E m \in 1 .. n : order'[m] = i
  <2>1. order' \in Injection(1 .. n, 1 .. n) BY <1>10 DEF Injection, IsInjective
  <2>2. IsFiniteSet(1 .. n) BY <1>4, FS_Interval
  <2>3. order' \in Surjection(1 .. n, 1 .. n) BY <2>1, <2>2, FS_Injection
  <2> QED BY <2>3 DEF Surjection
<1>12. k' = 1 /\ suppressed' = {} /\ keep' = <<>> BY DEF Threshold
<1>13. Len(order') = n BY <1>4, <1>10
<1>14. All' = 1 .. n BY <1>8 DEF All
<1>15. TypeInv' BY <1>4, <1>8, <1>10, <1>12, <1>13, <1>14 DEF TypeInv
<1>16. OrderInv' BY <1>8, <1>10, <1>11, <1>14 DEF OrderInv
<1>17. Kept' = {} /\ Processed' = {} BY <1>12 DEF Kept, Processed
<1>18. KeepInv' BY <1>12, <1>17 DEF KeepInv, IsInjective
<1>19. SuppressInv' BY <1>12, <1>17 DEF SuppressInv
<1> QED BY <1>15, <1>16, <1>18, <1>19 DEF NmsInv
-----------------------------------------------------------------------------
(* The loop keeps it.                                                        *)

LEMMA Steps ==
    ASSUME NmsInv, k <= Len(dets), UNCHANGED <<dets, order>>, k' = k + 1
    PROVE  /\ All' = All /\ k \in All /\ order[k] \in All /\ order[k] \notin Processed
           /\ Processed' = Processed \cup {order[k]}
           /\ \A i \in All : dets[i] \in Detection /\ dets[i].score \in Int
           /\ \A j \in Processed : j \in All /\ dets[j].score >= dets[order[k]].score
           /\ k' \in 1 .. Len(dets') + 1
           /\ \A i \in 1 .. k' - 1 : k' <= Len(dets') => dets[order[i]].score >= dets[order[k']].score
<1>0. TypeInv /\ OrderInv /\ KeepInv BY DEF NmsInv
<1>1. All' = All BY DEF All
<1>2. k \in Nat \ {0} /\ k \in All /\ Len(dets) \in Nat BY <1>0 DEF TypeInv, All
<1>3. order[k] \in All BY <1>0, <1>2 DEF TypeInv
<1>4. order[k] \notin Processed
  <2> SUFFICES ASSUME NEW i \in 1 .. k - 1, order[i] = order[k] PROVE FALSE BY DEF Processed
  <2>1. i \in All /\ i # k BY <1>2 DEF All
  <2> QED BY <1>0, <1>2, <2>1 DEF OrderInv, IsInjective, TypeInv
<1>5. Processed' = Processed \cup {order[k]}
  <2>1. 1 .. k' - 1 = (1 .. k - 1) \cup {k} BY <1>2
  <2> QED BY <2>1 DEF Processed
<1>6. \A i \in All : dets[i] \in Detection BY <1>0 DEF TypeInv, All
<1>7. \A i \in All : dets[i].score \in Int BY <1>6 DEF Detection
<1>8. \A i \in 1 .. k - 1 : i \in All /\ dets[order[i]].score >= dets[order[k]].score
      BY <1>0, <1>2 DEF KeepInv, All
<1>9. \A j \in Processed : j \in All /\ dets[j].score >= dets[order[k]].score
      BY <1>0, <1>8 DEF Processed, TypeInv
<1>10. k' \in 1 .. Len(dets') + 1 BY <1>2
<1>11. ASSUME NEW i \in 1 .. k' - 1, k' <= Len(dets')
       PROVE  dets[order[i]].score >= dets[order[k']].score
  <2>1. k + 1 <= Len(dets) /\ k + 1 \in All /\ k \in 1 .. Len(dets) - 1 BY <1>2, <1>11 DEF All
  <2>2. dets[order[k]].score >= dets[order[k + 1]].score BY <1>0, <2>1 DEF OrderInv
  <2>3. order[k + 1] \in All BY <1>0, <2>1 DEF TypeInv
  <2>4. i \in 1 .. k - 1 \/ i = k BY <1>2
  <2>5. i \in All BY <1>2, <2>1, <2>4 DEF All
  <2>7. order[i] \in All BY <1>0, <2>5 DEF TypeInv
  <2>8. /\ dets[order[i]].score \in Int /\ dets[order[k]].score \in Int
        /\ dets[order[k + 1]].score \in Int
        BY <1>3, <1>7, <2>3, <2>7
  <2>6. dets[order[i]].score >= dets[order[k]].score BY <1>3, <1>7, <1>8, <2>4
  <2>9. dets[order[i]].score >= dets[order[k + 1]].score BY <2>2, <2>6, <2>8
  <2> QED BY <2>9
<1> QED BY <1>1, <1>2, <1>3, <1>4, <1>5, <1>6, <1>7, <1>9, <1>10, <1>11

LEMMA SkipKeepsNmsInv ==
    ASSUME NmsInv, NmsSkip
    PROVE  NmsInv'
<1>0. TypeInv /\ OrderInv /\ KeepInv /\ SuppressInv BY DEF NmsInv
<1>1. /\ k <= Len(dets) /\ order[k] \in suppressed /\ k' = k + 1
      /\ UNCHANGED <<request, dets, order, suppressed, keep>>
      BY <1>0 DEF NmsSkip, TypeInv
<1> DEFINE c == order[k]
<1>2. /\ All' = All /\ Processed' = Processed \cup {c} /\ k' \in 1 .. Len(dets') + 1
      /\ \A j \in Processed : dets[j].score >= dets[c].score
      /\ \A i \in 1 .. k' - 1 : k' <= Len(dets') => dets[order[i]].score >= dets[order[k']].score
      BY <1>1, Steps
<1>3. Kept' = Kept BY <1>1 DEF Kept
<1>4. TypeInv' BY <1>0, <1>1, <1>2 DEF TypeInv
<1>5. OrderInv' BY <1>0, <1>1, <1>2 DEF OrderInv
<1>6. KeepInv' BY <1>0, <1>1, <1>2, <1>3 DEF KeepInv
<1>7. SuppressInv'
  <2>1. \E i \in Kept : Clash(i, c) /\ dets[i].score >= dets[c].score
        BY <1>0, <1>1, <1>2 DEF SuppressInv, KeepInv
  <2>2. \A j \in suppressed \cap Processed' : \E i \in Kept : Clash(i, j) /\ dets[i].score >= dets[j].score
        BY <1>0, <1>2, <2>1 DEF SuppressInv
  <2>3. \A i, j : Clash(i, j)' = Clash(i, j) BY <1>1 DEF Clash
  <2> QED BY <1>0, <1>1, <1>2, <1>3, <2>2, <2>3 DEF SuppressInv
<1> QED BY <1>4, <1>5, <1>6, <1>7 DEF NmsInv

LEMMA KeepKeepsNmsInv ==
    ASSUME NmsInv, NmsKeep
    PROVE  NmsInv'
<1>0. TypeInv /\ OrderInv /\ KeepInv /\ SuppressInv BY DEF NmsInv
<1>c. PICK c : c = order[k] OBVIOUS
<1>l. PICK l : l = Len(keep) + 1 OBVIOUS
<1>1. /\ k <= Len(dets) /\ c \notin suppressed /\ k' = k + 1 /\ keep' = Append(keep, c)
      /\ suppressed' = suppressed \cup {j \in All : j # c /\ Clash(c, j)}
      /\ UNCHANGED <<request, dets, order>>
      BY <1>0, <1>c DEF NmsKeep, TypeInv, All, Clash
<1>2. /\ All' = All /\ c \in All /\ c \notin Processed
      /\ Processed' = Processed \cup {c} /\ k' \in 1 .. Len(dets') + 1
      /\ \A j \in Processed : j \in All /\ dets[j].score >= dets[c].score
      /\ \A i \in 1 .. k' - 1 : k' <= Len(dets') => dets[order[i]].score >= dets[order[k']].score
      BY <1>c, <1>1, Steps
<1>3. /\ keep' \in Seq(All) /\ l \in Nat \ {0} /\ keep'[l] = c
      /\ 1 .. Len(keep') = (1 .. Len(keep)) \cup {l}
      /\ \A m \in 1 .. Len(keep) : keep'[m] = keep[m] /\ m < l
  <2>1. keep \in Seq(All) /\ Len(keep) \in Nat BY <1>0 DEF TypeInv
  <2>2. Len(keep') = Len(keep) + 1 /\ keep' \in Seq(All) BY <1>1, <1>2, <2>1
  <2>3. 1 .. Len(keep) + 1 = (1 .. Len(keep)) \cup {Len(keep) + 1} BY <2>1
  <2>4. keep'[Len(keep) + 1] = c /\ \A m \in 1 .. Len(keep) : keep'[m] = keep[m] BY <1>1, <2>1
  <2> QED BY <1>l, <2>1, <2>2, <2>3, <2>4
<1>4. Kept' = Kept \cup {c} BY <1>3 DEF Kept
<1>5. TypeInv' BY <1>0, <1>1, <1>2, <1>3 DEF TypeInv
<1>6. OrderInv' BY <1>0, <1>1, <1>2 DEF OrderInv
<1>7. KeepInv'
  <2>1. Kept' \subseteq Processed' BY <1>0, <1>2, <1>4 DEF KeepInv
  <2>2. IsInjective(keep')
    <3>1. DOMAIN keep' = 1 .. Len(keep') /\ DOMAIN keep = 1 .. Len(keep) BY <1>0, <1>3 DEF TypeInv
    <3>2. \A m \in 1 .. Len(keep) : keep[m] # c BY <1>0, <1>2 DEF KeepInv, Kept
    <3> QED BY <1>0, <1>3, <3>1, <3>2 DEF KeepInv, IsInjective
  <2>3. ASSUME NEW m \in 1 .. Len(keep'), NEW n \in 1 .. Len(keep'), m < n
        PROVE  dets[keep'[m]].score >= dets[keep'[n]].score
    <3>0. Len(keep) \in Nat BY <1>0 DEF TypeInv
    <3>1. m \in 1 .. Len(keep) BY <1>3, <1>l, <2>3, <3>0
    <3>2. CASE n \in 1 .. Len(keep) BY <1>0, <1>3, <2>3, <3>1, <3>2 DEF KeepInv
    <3>3. CASE n = l
      <4>1. keep[m] \in Processed BY <1>0, <3>1 DEF KeepInv, Kept
      <4> QED BY <1>2, <1>3, <3>1, <3>3, <4>1
    <3> QED BY <1>3, <3>2, <3>3
  <2> QED BY <1>1, <1>2, <2>1, <2>2, <2>3 DEF KeepInv
<1>8. SuppressInv'
  <2>1. \A i, j : Clash(i, j)' = Clash(i, j) BY <1>1 DEF Clash
  <2>2. \A i \in Kept : i \in All /\ i # c /\ ~Clash(c, i)
    <3> SUFFICES ASSUME NEW i \in Kept PROVE i \in All /\ i # c /\ ~Clash(c, i) OBVIOUS
    <3>1. i \in All /\ i # c BY <1>0, <1>2 DEF KeepInv
    <3>2. ~Clash(i, c) BY <1>0, <1>1, <1>2, <3>1 DEF SuppressInv
    <3> QED BY <1>0, <1>2, <3>1, <3>2, ClashSymmetric DEF TypeInv
  <2>3. Kept' \cap suppressed' = {} BY <1>0, <1>1, <1>4, <2>2 DEF SuppressInv
  <2>4. Processed' \subseteq Kept' \cup suppressed' BY <1>0, <1>1, <1>2, <1>4 DEF SuppressInv
  <2>5. \A i \in Kept', j \in All : i # j /\ Clash(i, j) => j \in suppressed'
        BY <1>0, <1>1, <1>4 DEF SuppressInv
  <2>6. \A j \in suppressed' : \E i \in Kept' : Clash(i, j)
        BY <1>0, <1>1, <1>4 DEF SuppressInv
  <2>7. suppressed' \cap Processed' \subseteq suppressed \cap Processed
        BY <1>0, <1>1, <1>2, <2>2 DEF SuppressInv
  <2>8. \A j \in suppressed' \cap Processed' : \E i \in Kept' : Clash(i, j) /\ dets[i].score >= dets[j].score
        BY <1>0, <1>4, <2>7 DEF SuppressInv
  <2> QED BY <1>1, <1>2, <2>1, <2>3, <2>4, <2>5, <2>6, <2>8 DEF SuppressInv
<1> QED BY <1>5, <1>6, <1>7, <1>8 DEF NmsInv

-----------------------------------------------------------------------------
(* All steps, and what the invariant says in the end.                        *)

LEMMA NmsInvUnchanged ==
    ASSUME NmsInv, UNCHANGED <<request, dets, order, k, suppressed, keep>>
    PROVE  NmsInv'
<1>1. All' = All /\ Kept' = Kept /\ Processed' = Processed BY DEF All, Kept, Processed
<1>2. TypeInv' /\ OrderInv' /\ KeepInv' BY <1>1 DEF NmsInv, TypeInv, OrderInv, KeepInv
<1>3. \A i, j : Clash(i, j)' = Clash(i, j) BY DEF Clash
<1>4. SuppressInv' BY <1>1, <1>3 DEF NmsInv, SuppressInv
<1> QED BY <1>2, <1>4 DEF NmsInv

LEMMA InitIInv == Init => IInv
BY DEF Init, IInv

LEMMA NextIInv == IInv /\ [Next]_vars => IInv'
<1> SUFFICES ASSUME IInv, [Next]_vars PROVE IInv' OBVIOUS
<1>1. CASE Ask BY <1>1 DEF Ask, IInv
<1>2. CASE PvsTrt \/ PvsGgml \/ PvsRefused
      BY <1>2 DEF PvsTrt, PvsGgml, PvsRefused, To, IInv
<1>3. CASE PcsTrt \/ PcsGgml BY <1>3 DEF PcsTrt, PcsGgml, To, IInv
<1>4. CASE ChooseMasks BY <1>4 DEF ChooseMasks, IInv
<1>5. CASE Threshold BY <1>5, ThresholdBegins DEF Threshold, IInv
<1>6. CASE NmsSkip BY <1>6, SkipKeepsNmsInv DEF NmsSkip, IInv
<1>7. CASE NmsKeep BY <1>7, KeepKeepsNmsInv DEF NmsKeep, IInv
<1>8. CASE Number
  <2>1. /\ NmsInv /\ at' = "done" /\ k > Len(order)
        /\ UNCHANGED <<request, dets, order, k, suppressed, keep>>
        BY <1>8 DEF Number, IInv
  <2>2. NmsInv' BY <2>1, NmsInvUnchanged
  <2>3. Numbered' BY <1>8, <2>1 DEF Number, Numbered, NmsInv, TypeInv
  <2> QED BY <2>1, <2>2, <2>3 DEF IInv
<1>9. CASE UNCHANGED vars
  <2>1. UNCHANGED <<request, at, dets, order, k, suppressed, keep, result>> BY <1>9 DEF vars
  <2>2. NmsInv => NmsInv' BY <2>1, NmsInvUnchanged
  <2>3. Numbered => Numbered' BY <2>1 DEF Numbered
  <2> QED BY <2>1, <2>2, <2>3 DEF IInv
<1> QED BY <1>1, <1>2, <1>3, <1>4, <1>5, <1>6, <1>7, <1>8, <1>9 DEF Next

LEMMA InvImplies == IInv => SuppressionAsDefined
<1> SUFFICES ASSUME IInv, at = "done", "score_threshold" \in DOMAIN request
             PROVE  SuppressionAsDefined
    BY DEF SuppressionAsDefined
<1>1. TypeInv /\ OrderInv /\ KeepInv /\ SuppressInv /\ Numbered
      BY RequestsAssumption DEF IInv, NmsInv
<1>2. ToSet(keep) = Kept
  <2>1. DOMAIN keep = 1 .. Len(keep) BY <1>1 DEF TypeInv
  <2> QED BY <2>1 DEF ToSet, Kept
<1>3. Processed = All
  <2>1. 1 .. k - 1 = All BY <1>1 DEF Numbered, TypeInv, All
  <2> QED BY <1>1, <2>1 DEF Processed, OrderInv, TypeInv
<1>4. Kept \subseteq All BY <1>1, <1>3 DEF KeepInv
<1>5. \A i, j \in Kept : i # j => ~Clash(i, j)
      BY <1>1, <1>4 DEF SuppressInv
<1>6. \A j \in All : j \in Kept \/ \E i \in Kept : Clash(i, j) /\ dets[i].score >= dets[j].score
      BY <1>1, <1>3 DEF SuppressInv
<1>7. /\ Len(keep) \in Nat /\ Len(result) = Len(keep)
      /\ \A i \in 1 .. Len(result) :
            /\ i \in 1 .. Len(keep) /\ i \in Int
            /\ result[i].score = dets[keep[i]].score /\ result[i].box = dets[keep[i]].box
            /\ result[i].instance_id = i
  <2>1. Len(keep) \in Nat BY <1>1 DEF TypeInv
  <2> QED BY <1>1, <2>1 DEF Numbered
<1>8. \A i, j \in 1 .. Len(result) :
         i < j => result[i].score >= result[j].score /\ result[i].instance_id < result[j].instance_id
      BY <1>1, <1>7 DEF KeepInv
<1>9. ASSUME NEW i \in 1 .. Len(result)
      PROVE  LET b == result[i].box IN
             /\ 0 <= b.x0 /\ b.x0 <= b.x1 /\ b.x1 <= 2 * Width
             /\ 0 <= b.y0 /\ b.y0 <= b.y1 /\ b.y1 <= 2 * Height
  <2>1. keep[i] \in All BY <1>7, <1>9, <1>1 DEF TypeInv
  <2>2. dets[keep[i]] \in Detection BY <1>1, <2>1 DEF TypeInv, All
  <2>3. result[i].box \in Box /\ result[i].box.x0 <= result[i].box.x1 /\ result[i].box.y0 <= result[i].box.y1
        BY <1>7, <2>2 DEF Detection
  <2> QED BY <2>3, SizesAssumption DEF Box
<1>10. IsInjective(keep) /\ Kept \cap suppressed = {} BY <1>1 DEF KeepInv, SuppressInv
<1> QED BY <1>2, <1>5, <1>6, <1>8, <1>9, <1>10 DEF SuppressionAsDefined, All

(* What sam3_segment_pcs returns, by either path, is what non-maximum        *)
(* suppression is defined to leave: no two detections that overlap, every    *)
(* other one beaten by one of no lower score, the best first, boxes within   *)
(* the image.                                                                *)
THEOREM SuppressionIsSound == Spec => []SuppressionAsDefined
BY InitIInv, NextIInv, InvImplies, PTL DEF Spec

-----------------------------------------------------------------------------
(* The rows of a prompt.                                                     *)

Padding == [at |-> <<"origin", 0>>, label |-> -1]
Positive(r) == {[at |-> p, label |-> 1] : p \in ToSet(r.pos)}
Negative(r) == {[at |-> p, label |-> 0] : p \in ToSet(r.neg)}
Token(r) == {Box0, Box1, Padding} \cup Positive(r) \cup Negative(r)
BoxTokens(r) == IF r.box THEN 2 ELSE 0

\* A list has what is at its places, and nothing else.
LEMMA Listed ==
    ASSUME NEW s, IsList(s)
    PROVE  /\ Len(s) \in Nat /\ \A i \in 1 .. Len(s) : s[i] \in ToSet(s)
           /\ \A e \in ToSet(s) : \E i \in 1 .. Len(s) : s[i] = e
<1>1. s \in Seq(ToSet(s)) BY DEF IsList
<1>2. DOMAIN s = 1 .. Len(s) /\ Len(s) \in Nat BY <1>1
<1> QED BY <1>2 DEF ToSet

\* h is f, which has m places, and g behind it, which has n.
Joins(h, f, g, m, n, S) ==
    /\ h \in [1 .. m + n -> S]
    /\ \A i \in 1 .. m : h[i] = f[i]
    /\ \A i \in m + 1 .. m + n : h[i] = g[i - m]

LEMMA ConcatJoins ==
    ASSUME NEW S, NEW m \in Nat, NEW n \in Nat, NEW f \in [1 .. m -> S], NEW g \in [1 .. n -> S]
    PROVE  Joins(f \o g, f, g, m, n, S)
<1>h. PICK h : h = f \o g OBVIOUS
<1>1. f \in Seq(S) /\ Len(f) = m /\ g \in Seq(S) /\ Len(g) = n BY VectorIsSequence
<1>2. /\ h \in Seq(S) /\ Len(h) = m + n
      /\ \A i \in 1 .. m + n : h[i] = IF i <= m THEN f[i] ELSE g[i - m]
      BY <1>h, <1>1, ConcatProperties
<1>3. \A i \in 1 .. m : h[i] = f[i] BY <1>2
<1>4. \A i \in m + 1 .. m + n : h[i] = g[i - m] BY <1>2
<1>5. h \in [1 .. m + n -> S] BY <1>2, LenProperties
<1> QED BY <1>h, <1>3, <1>4, <1>5 DEF Joins

\* The box's two corners, the positive points, the negative ones, the padding.
Counts(r, b, p, n) == b = BoxTokens(r) /\ p = Len(r.pos) /\ n = Len(r.neg)

TokensAre(r, b, p, n) ==
    \A i \in 1 .. b + p + n + 1 :
       PvsTokens(r)[i] =
          IF i <= b THEN IF i = 1 THEN Box0 ELSE Box1
          ELSE IF i <= b + p THEN [at |-> r.pos[i - b], label |-> 1]
          ELSE IF i <= b + p + n THEN [at |-> r.neg[i - (b + p)], label |-> 0]
          ELSE Padding

LEMMA TokensInOrder ==
    ASSUME NEW r \in PvsRequests, NEW b, NEW p, NEW n, Counts(r, b, p, n)
    PROVE  /\ b \in Nat /\ p \in Nat /\ n \in Nat
           /\ PointCount(r) = b + p + n + 1 /\ Len(PvsTokens(r)) = b + p + n + 1
           /\ TokensAre(r, b, p, n)
<1>1. IsList(r.pos) /\ IsList(r.neg) /\ r.box \in BOOLEAN BY RequestsAssumption
<1>2. p \in Nat /\ n \in Nat BY <1>1, Listed DEF Counts
<1>3. b \in Nat BY <1>1 DEF BoxTokens, Counts
<1> DEFINE S == Token(r)
           B == IF r.box THEN <<Box0, Box1>> ELSE <<>>
           P == [i \in 1 .. Len(r.pos) |-> [at |-> r.pos[i], label |-> 1]]
           N == [i \in 1 .. Len(r.neg) |-> [at |-> r.neg[i], label |-> 0]]
           D == <<Padding>>
<1>4. B \in [1 .. b -> S] /\ \A i \in 1 .. b : B[i] = IF i = 1 THEN Box0 ELSE Box1
  <2>1. CASE r.box
    <3>1. b = 2 /\ B = <<Box0, Box1>> BY <2>1 DEF BoxTokens, Counts
    <3> QED BY <3>1 DEF Token
  <2>2. CASE ~r.box
    <3>1. b = 0 /\ B = <<>> BY <2>2 DEF BoxTokens, Counts
    <3> QED BY <3>1
  <2> QED BY <2>1, <2>2
<1>5. P \in [1 .. p -> S]
  <2>1. p = Len(r.pos) BY DEF Counts
  <2>2. \A i \in 1 .. p : r.pos[i] \in ToSet(r.pos) BY <1>1, <2>1, Listed
  <2> QED BY <2>1, <2>2 DEF Token, Positive
<1>6. N \in [1 .. n -> S]
  <2>1. n = Len(r.neg) BY DEF Counts
  <2>2. \A i \in 1 .. n : r.neg[i] \in ToSet(r.neg) BY <1>1, <2>1, Listed
  <2> QED BY <2>1, <2>2 DEF Token, Negative
<1>7. D \in [1 .. 1 -> S] /\ D[1] = Padding BY DEF Token
<1>8. PvsTokens(r) = ((B \o P) \o N) \o D BY DEF PvsTokens, Padding
<1>9. /\ \A i \in 1 .. p : P[i] = [at |-> r.pos[i], label |-> 1]
      /\ \A i \in 1 .. n : N[i] = [at |-> r.neg[i], label |-> 0]
      BY DEF Counts
<1> HIDE DEF S, B, P, N, D
<1>c. PICK c : c = b + p OBVIOUS
<1>d. PICK d : d = c + n OBVIOUS
<1>e. c \in Nat /\ d \in Nat BY <1>2, <1>3, <1>c, <1>d
<1>10. Joins(B \o P, B, P, b, p, S) BY <1>2, <1>3, <1>4, <1>5, ConcatJoins
<1>11. Joins((B \o P) \o N, B \o P, N, c, n, S)
  <2>1. B \o P \in [1 .. c -> S] BY <1>c, <1>10 DEF Joins
  <2> QED BY <1>2, <1>6, <1>e, <2>1, ConcatJoins
<1>12. Joins(PvsTokens(r), (B \o P) \o N, D, d, 1, S)
  <2>1. (B \o P) \o N \in [1 .. d -> S] BY <1>d, <1>11 DEF Joins
  <2> QED BY <1>7, <1>8, <1>e, <2>1, ConcatJoins
<1>13. Len(PvsTokens(r)) = b + p + n + 1
  <2>1. PvsTokens(r) \in [1 .. d + 1 -> S] BY <1>12 DEF Joins
  <2>2. Len(PvsTokens(r)) = d + 1 BY <1>e, <2>1, VectorIsSequence
  <2>3. d + 1 = b + p + n + 1 BY <1>2, <1>3, <1>c, <1>d
  <2> QED BY <2>2, <2>3
<1>14. PointCount(r) = b + p + n + 1
  <2>1. PointCount(r) = p + n + 1 + b BY <1>1 DEF PointCount, BoxTokens, Counts
  <2> QED BY <1>2, <1>3, <2>1
<1>15. ASSUME NEW i \in 1 .. b + p + n + 1
       PROVE  PvsTokens(r)[i] =
                    IF i <= b THEN IF i = 1 THEN Box0 ELSE Box1
                    ELSE IF i <= b + p THEN [at |-> r.pos[i - b], label |-> 1]
                    ELSE IF i <= b + p + n THEN [at |-> r.neg[i - (b + p)], label |-> 0]
                    ELSE Padding
  <2>1. CASE i <= b
    <3>1. i \in 1 .. b /\ i \in 1 .. c /\ i \in 1 .. d BY <1>2, <1>3, <1>c, <1>d, <2>1
    <3>2. PvsTokens(r)[i] = B[i] BY <1>10, <1>11, <1>12, <3>1 DEF Joins
    <3> QED BY <1>4, <2>1, <3>1, <3>2
  <2>2. CASE ~(i <= b) /\ i <= b + p
    <3>1. i \in b + 1 .. b + p /\ i \in 1 .. c /\ i \in 1 .. d /\ i - b \in 1 .. p
          BY <1>2, <1>3, <1>c, <1>d, <2>2
    <3>2. PvsTokens(r)[i] = P[i - b] BY <1>10, <1>11, <1>12, <3>1 DEF Joins
    <3> QED BY <1>9, <2>2, <3>1, <3>2
  <2>3. CASE ~(i <= b) /\ ~(i <= b + p) /\ i <= b + p + n
    <3>1. i \in c + 1 .. c + n /\ i \in 1 .. d /\ i - c \in 1 .. n BY <1>2, <1>3, <1>c, <1>d, <2>3
    <3>2. PvsTokens(r)[i] = N[i - c] BY <1>11, <1>12, <3>1 DEF Joins
    <3> QED BY <1>9, <1>c, <2>3, <3>1, <3>2
  <2>4. CASE ~(i <= b) /\ ~(i <= b + p) /\ ~(i <= b + p + n)
    <3>1. i \in d + 1 .. d + 1 /\ i - d = 1 BY <1>2, <1>3, <1>c, <1>d, <2>4
    <3>2. PvsTokens(r)[i] = D[i - d] BY <1>12, <3>1 DEF Joins
    <3> QED BY <1>7, <2>4, <3>1, <3>2
  <2> QED BY <2>1, <2>2, <2>3, <2>4
<1> QED BY <1>2, <1>3, <1>13, <1>14, <1>15 DEF TokensAre

Nowhere == [at |-> <<"nowhere", 0>>, label |-> -1]

\* What PromptReachesEngine says of either engine's rows for points and boxes.
PointRowsReach(r, rows) ==
    /\ Len(rows) = Len(r.pos) + Len(r.neg) + (IF r.box THEN 3 ELSE 1)
    /\ \A i \in 1 .. Len(rows) : (rows[i].label = -1) = (i = Len(rows))
    /\ {rows[i] : i \in 1 .. Len(rows)} =
         Positive(r) \cup Negative(r) \cup (IF r.box THEN {Box0, Box1} ELSE {}) \cup {Nowhere}

LEMMA PointRows ==
    ASSUME NEW r \in PvsRequests
    PROVE  /\ TrtSparse(r) = GgmlSparse(r) /\ Len(TrtSparse(r)) = Len(PvsTokens(r))
           /\ PointRowsReach(r, TrtSparse(r))
<1>b. PICK b : b = BoxTokens(r) OBVIOUS
<1>p. PICK p : p = Len(r.pos) OBVIOUS
<1>n. PICK n : n = Len(r.neg) OBVIOUS
<1>c. Counts(r, b, p, n) BY <1>b, <1>p, <1>n DEF Counts
<1>t. PICK rows : rows = TrtSparse(r) OBVIOUS
<1>1. /\ b \in Nat /\ p \in Nat /\ n \in Nat
      /\ PointCount(r) = b + p + n + 1 /\ Len(PvsTokens(r)) = b + p + n + 1
      BY <1>c, TokensInOrder
<1>2. \A i \in 1 .. b + p + n + 1 :
                 PvsTokens(r)[i] =
                    IF i <= b THEN IF i = 1 THEN Box0 ELSE Box1
                    ELSE IF i <= b + p THEN [at |-> r.pos[i - b], label |-> 1]
                    ELSE IF i <= b + p + n THEN [at |-> r.neg[i - (b + p)], label |-> 0]
                    ELSE Padding
      BY <1>c, TokensInOrder DEF TokensAre
<1>l. PICK l : l = b + p + n + 1 OBVIOUS
<1>3. rows = [i \in 1 .. l |-> SparseRow(PvsTokens(r)[i])] BY <1>1, <1>l, <1>t DEF TrtSparse
<1>4. TrtSparse(r) = GgmlSparse(r) BY <1>1 DEF TrtSparse, GgmlSparse
<1>5. Len(rows) = l /\ l \in Nat
  <2>1. l \in Nat BY <1>1, <1>l
  <2>2. rows \in [1 .. l -> {rows[i] : i \in 1 .. l}] BY <1>3
  <2> QED BY <2>1, <2>2, VectorIsSequence
<1>f. \A i \in 1 .. l : rows[i] = SparseRow(PvsTokens(r)[i]) BY <1>3
<1>6. ASSUME NEW i \in 1 .. b PROVE rows[i] = IF i = 1 THEN Box0 ELSE Box1
  <2>1. i \in 1 .. l /\ i \in 1 .. b + p + n + 1 BY <1>1, <1>l
  <2>2. PvsTokens(r)[i] = IF i = 1 THEN Box0 ELSE Box1 BY <1>1, <1>2, <2>1
  <2> QED BY <1>f, <2>1, <2>2 DEF SparseRow, Box0, Box1
<1>15. ASSUME NEW i \in b + 1 .. b + p PROVE rows[i] = [at |-> r.pos[i - b], label |-> 1]
  <2>1. i \in 1 .. l /\ i \in 1 .. b + p + n + 1 /\ ~(i <= b) /\ i <= b + p BY <1>1, <1>l
  <2>2. PvsTokens(r)[i] = [at |-> r.pos[i - b], label |-> 1] BY <1>2, <2>1
  <2> QED BY <1>f, <2>1, <2>2 DEF SparseRow
<1>16. ASSUME NEW i \in b + p + 1 .. b + p + n
       PROVE  rows[i] = [at |-> r.neg[i - (b + p)], label |-> 0]
  <2>1. /\ i \in 1 .. l /\ i \in 1 .. b + p + n + 1
        /\ ~(i <= b) /\ ~(i <= b + p) /\ i <= b + p + n
        BY <1>1, <1>l
  <2>2. PvsTokens(r)[i] = [at |-> r.neg[i - (b + p)], label |-> 0] BY <1>2, <2>1
  <2> QED BY <1>f, <2>1, <2>2 DEF SparseRow
<1>17. rows[l] = Nowhere
  <2>1. /\ l \in 1 .. l /\ l \in 1 .. b + p + n + 1
        /\ ~(l <= b) /\ ~(l <= b + p) /\ ~(l <= b + p + n)
        BY <1>1, <1>l
  <2>2. PvsTokens(r)[l] = Padding BY <1>2, <2>1
  <2> QED BY <1>f, <2>1, <2>2 DEF SparseRow, Padding, Nowhere
<1>7. 1 .. l = (1 .. b) \cup (b + 1 .. b + p) \cup (b + p + 1 .. b + p + n) \cup {l}
      BY <1>1, <1>l
<1>8. Len(rows) = Len(r.pos) + Len(r.neg) + (IF r.box THEN 3 ELSE 1)
  <2>1. r.box \in BOOLEAN BY RequestsAssumption
  <2>2. CASE r.box
    <3>1. b = 2 BY <1>b, <2>2 DEF BoxTokens
    <3>2. Len(rows) = p + n + 3 BY <1>1, <1>5, <1>l, <3>1
    <3> QED BY <1>p, <1>n, <2>2, <3>2
  <2>3. CASE ~r.box
    <3>1. b = 0 BY <1>b, <2>3 DEF BoxTokens
    <3>2. Len(rows) = p + n + 1 BY <1>1, <1>5, <1>l, <3>1
    <3> QED BY <1>p, <1>n, <2>3, <3>2
  <2> QED BY <2>1, <2>2, <2>3
<1>9. ASSUME NEW i \in 1 .. l PROVE (rows[i].label = -1) = (i = l)
  <2>1. CASE i \in 1 .. b BY <1>1, <1>6, <1>l, <2>1 DEF Box0, Box1
  <2>2. CASE i \in b + 1 .. b + p
    <3>1. i # l BY <1>1, <1>l, <2>2
    <3>0. rows[i] = [at |-> r.pos[i - b], label |-> 1] BY <1>15, <2>2
    <3>2. rows[i].label = 1 BY <3>0
    <3> QED BY <3>1, <3>2
  <2>3. CASE i \in b + p + 1 .. b + p + n
    <3>1. i # l BY <1>1, <1>l, <2>3
    <3>0. rows[i] = [at |-> r.neg[i - (b + p)], label |-> 0] BY <1>16, <2>3
    <3>2. rows[i].label = 0 BY <3>0
    <3> QED BY <3>1, <3>2
  <2>4. CASE i = l BY <1>17, <2>4 DEF Nowhere
  <2> QED BY <1>7, <2>1, <2>2, <2>3, <2>4
<1> DEFINE Corners == IF r.box THEN {Box0, Box1} ELSE {}
           Rows == {rows[i] : i \in 1 .. l}
<1>10. {rows[i] : i \in 1 .. b} = Corners
  <2>1. r.box \in BOOLEAN BY RequestsAssumption
  <2>2. CASE r.box
    <3>1. b = 2 BY <1>b, <2>2 DEF BoxTokens
    <3>2. rows[1] = Box0 /\ rows[2] = Box1 BY <1>6, <3>1
    <3>3. 1 .. b = {1, 2} BY <3>1
    <3> QED BY <2>2, <3>2, <3>3
  <2>3. CASE ~r.box
    <3>1. b = 0 BY <1>b, <2>3 DEF BoxTokens
    <3> QED BY <2>3, <3>1
  <2> QED BY <2>1, <2>2, <2>3
<1>11. {rows[i] : i \in b + 1 .. b + p} = Positive(r)
  <2>1. IsList(r.pos) BY RequestsAssumption
  <2>2. ASSUME NEW i \in b + 1 .. b + p PROVE rows[i] \in Positive(r)
    <3>1. i - b \in 1 .. p BY <1>1
    <3>2. r.pos[i - b] \in ToSet(r.pos) BY <1>p, <2>1, <3>1, Listed
    <3> QED BY <1>15, <3>2 DEF Positive
  <2>3. ASSUME NEW q \in ToSet(r.pos)
        PROVE  \E i \in b + 1 .. b + p : rows[i] = [at |-> q, label |-> 1]
    <3>1. PICK j \in 1 .. p : r.pos[j] = q BY <1>p, <2>1, Listed
    <3>2. b + j \in b + 1 .. b + p /\ (b + j) - b = j BY <1>1
    <3> QED BY <1>15, <3>1, <3>2
  <2> QED BY <2>2, <2>3 DEF Positive
<1>12. {rows[i] : i \in b + p + 1 .. b + p + n} = Negative(r)
  <2>1. IsList(r.neg) BY RequestsAssumption
  <2>2. ASSUME NEW i \in b + p + 1 .. b + p + n PROVE rows[i] \in Negative(r)
    <3>1. i - (b + p) \in 1 .. n BY <1>1
    <3>2. r.neg[i - (b + p)] \in ToSet(r.neg) BY <1>n, <2>1, <3>1, Listed
    <3> QED BY <1>16, <3>2 DEF Negative
  <2>3. ASSUME NEW q \in ToSet(r.neg)
        PROVE  \E i \in b + p + 1 .. b + p + n : rows[i] = [at |-> q, label |-> 0]
    <3>1. PICK j \in 1 .. n : r.neg[j] = q BY <1>n, <2>1, Listed
    <3>2. PICK i : i = (b + p) + j OBVIOUS
    <3>3. i \in b + p + 1 .. b + p + n /\ i - (b + p) = j BY <1>1, <3>2
    <3> QED BY <1>16, <3>1, <3>3
  <2> QED BY <2>2, <2>3 DEF Negative
<1>13. Rows = Positive(r) \cup Negative(r) \cup Corners \cup {Nowhere}
  <2>1. Rows = {rows[i] : i \in 1 .. b} \cup {rows[i] : i \in b + 1 .. b + p}
               \cup {rows[i] : i \in b + p + 1 .. b + p + n} \cup {rows[l]}
        BY <1>7
  <2> QED BY <1>10, <1>11, <1>12, <1>17, <2>1
<1>14. PointRowsReach(r, rows)
       BY <1>5, <1>8, <1>9, <1>13 DEF PointRowsReach
<1> QED BY <1>1, <1>4, <1>5, <1>14, <1>t, <1>l

\* The rows of exemplars: boxes of either sign, then embeddings, sized.
PositiveRows(r) == [i \in 1 .. Len(r.pos) |-> BoxRow(r.pos[i], 1, "this")]
NegativeRows(r) == [i \in 1 .. Len(r.neg) |-> BoxRow(r.neg[i], 0, "this")]
Sized(e) == IF e = Short THEN Zeros ELSE e
EmbeddingRows(s) == [i \in 1 .. Len(s) |-> Sized(s[i])]

\* The same exemplars, given as embeddings.
Converted(r) ==
    [i \in 1 .. Len(r.pos) |-> Embedding(r.pos[i], TRUE, "this")]
    \o [i \in 1 .. Len(r.neg) |-> Embedding(r.neg[i], FALSE, "this")]
    \o r.emb

LEMMA EmptyAround ==
    ASSUME NEW S, NEW s \in Seq(S)
    PROVE  <<>> \o s = s
<1>1. <<>> \in Seq(S) /\ Len(<<>>) = 0 OBVIOUS
<1>2. /\ <<>> \o s \in Seq(S) /\ Len(<<>> \o s) = Len(s)
      /\ \A i \in 1 .. Len(s) : (<<>> \o s)[i] = s[i]
  <2>1. Len(s) \in Nat BY LenProperties
  <2> QED BY <1>1, <2>1, ConcatProperties
<1> QED BY <1>2, SeqEqual

\* The embedding of a box is the row that the box gets.
LEMMA EmbeddingIsRow ==
    ASSUME NEW b
    PROVE  /\ Embedding(b, TRUE, "this") = BoxRow(b, 1, "this")
           /\ Embedding(b, FALSE, "this") = BoxRow(b, 0, "this")
<1> DEFINE R(x) == {BoxRow(b, x, "this"), Cls}
<1>1. ASSUME NEW x \in {0, 1}, NEW r,
             r = [pos |-> IF x = 1 THEN <<b>> ELSE <<>>, neg |-> IF x = 1 THEN <<>> ELSE <<b>>, emb |-> <<>>]
      PROVE  GeomRows(r, "this")[1] = BoxRow(b, x, "this")
  <2> DEFINE P == [i \in 1 .. Len(r.pos) |-> BoxRow(r.pos[i], 1, "this")]
             N == [i \in 1 .. Len(r.neg) |-> BoxRow(r.neg[i], 0, "this")]
             E == [i \in 1 .. Len(r.emb) |-> IF r.emb[i] = Short THEN Zeros ELSE r.emb[i]]
  <2>1. GeomRows(r, "this") = ((P \o N) \o E) \o <<Cls>> BY DEF GeomRows, ExemplarRows
  <2>2. E = <<>> BY <1>1
  <2>3. P \o N = <<BoxRow(b, x, "this")>>
    <3>1. CASE x = 1
      <4>1. r.pos = <<b>> /\ r.neg = <<>> BY <1>1, <3>1
      <4>2. P = <<BoxRow(b, x, "this")>> /\ N = <<>> BY <3>1, <4>1
      <4> HIDE DEF P, N
      <4> QED BY <4>2
    <3>2. CASE x = 0
      <4>1. r.pos = <<>> /\ r.neg = <<b>> BY <1>1, <3>2
      <4>2. P = <<>> /\ N = <<BoxRow(b, x, "this")>> BY <3>2, <4>1
      <4> HIDE DEF P, N
      <4> QED BY <4>2
    <3> QED BY <3>1, <3>2
  <2> HIDE DEF P, N, E
  <2>4. GeomRows(r, "this") = (<<BoxRow(b, x, "this")>> \o <<>>) \o <<Cls>> BY <2>1, <2>2, <2>3
  <2>5. PICK row : row = BoxRow(b, x, "this") OBVIOUS
  <2>6. ((<<row>> \o <<>>) \o <<Cls>>)[1] = row OBVIOUS
  <2> QED BY <2>4, <2>5, <2>6
<1>2. Embedding(b, TRUE, "this") = BoxRow(b, 1, "this")
  <2>1. PICK r : r = [pos |-> <<b>>, neg |-> <<>>, emb |-> <<>>] OBVIOUS
  <2>2. Embedding(b, TRUE, "this") = GeomRows(r, "this")[1] BY <2>1 DEF Embedding
  <2> QED BY <1>1, <2>1, <2>2
<1>3. Embedding(b, FALSE, "this") = BoxRow(b, 0, "this")
  <2>1. PICK r : r = [pos |-> <<>>, neg |-> <<b>>, emb |-> <<>>] OBVIOUS
  <2>2. Embedding(b, FALSE, "this") = GeomRows(r, "this")[1] BY <2>1 DEF Embedding
  <2>3. PICK x : x = 0 OBVIOUS
  <2>4. r = [pos |-> IF x = 1 THEN <<b>> ELSE <<>>, neg |-> IF x = 1 THEN <<>> ELSE <<b>>, emb |-> <<>>]
        BY <2>1, <2>3
  <2>5. x \in {0, 1} BY <2>3
  <2>6. GeomRows(r, "this")[1] = BoxRow(b, x, "this") BY <1>1, <2>4, <2>5
  <2> QED BY <2>2, <2>3, <2>6
<1> QED BY <1>2, <1>3

\* What PromptReachesEngine says of the rows for exemplars and embeddings.
LEMMA ExemplarsReach ==
    ASSUME NEW r \in PcsRequests, NEW rows, rows = GeomRows(r, "this")
    PROVE  /\ Len(rows) = GeomCount(r) /\ Last(rows) = Cls
           /\ rows = GeomRows([pos |-> <<>>, neg |-> <<>>, emb |-> Converted(r)], "other")
<1>0. IsList(r.pos) /\ IsList(r.neg) /\ IsList(r.emb) BY RequestsAssumption
<1>p. PICK p : p = Len(r.pos) OBVIOUS
<1>n. PICK n : n = Len(r.neg) OBVIOUS
<1>m. PICK m : m = Len(r.emb) OBVIOUS
<1>c. PICK c : c = p + n OBVIOUS
<1>d. PICK d : d = c + m OBVIOUS
<1>1. p \in Nat /\ n \in Nat /\ m \in Nat /\ c \in Nat /\ d \in Nat
  <2>1. p \in Nat /\ n \in Nat /\ m \in Nat BY <1>0, <1>p, <1>n, <1>m, Listed
  <2> QED BY <2>1, <1>c, <1>d
<1>P. PICK P : P = PositiveRows(r) OBVIOUS
<1>N. PICK N : N = NegativeRows(r) OBVIOUS
<1>E. PICK E : E = EmbeddingRows(r.emb) OBVIOUS
<1>D. PICK D : D = <<Cls>> OBVIOUS
<1>S. PICK S : S = {P[i] : i \in 1 .. p} \cup {N[i] : i \in 1 .. n} \cup {E[i] : i \in 1 .. m}
                   \cup ToSet(r.emb) \cup {Cls}
      OBVIOUS
<1>2. /\ P \in [1 .. p -> S] /\ \A i \in 1 .. p : P[i] = BoxRow(r.pos[i], 1, "this")
      BY <1>P, <1>p, <1>S DEF PositiveRows
<1>3. /\ N \in [1 .. n -> S] /\ \A i \in 1 .. n : N[i] = BoxRow(r.neg[i], 0, "this")
      BY <1>N, <1>n, <1>S DEF NegativeRows
<1>4. /\ E \in [1 .. m -> S] /\ \A i \in 1 .. m : E[i] = Sized(r.emb[i])
      BY <1>E, <1>m, <1>S DEF EmbeddingRows
<1>5. r.emb \in [1 .. m -> S]
  <2>1. r.emb \in Seq(S) BY <1>0, <1>S DEF IsList
  <2> QED BY <2>1, <1>m, LenProperties
<1>6. D \in [1 .. 1 -> S] /\ D[1] = Cls BY <1>D, <1>S
<1>a. PICK a : a = P \o N OBVIOUS
<1>b. PICK b : b = a \o E OBVIOUS
<1>7. rows = b \o D
      BY <1>P, <1>N, <1>E, <1>D, <1>a, <1>b
      DEF GeomRows, ExemplarRows, PositiveRows, NegativeRows, EmbeddingRows, Sized
<1>8. Joins(a, P, N, p, n, S) BY <1>1, <1>2, <1>3, <1>a, ConcatJoins
<1>9. a \in [1 .. c -> S] BY <1>8, <1>c DEF Joins
<1>10. Joins(b, a, E, c, m, S) BY <1>1, <1>4, <1>9, <1>b, ConcatJoins
<1>11. b \in [1 .. d -> S] BY <1>10, <1>d DEF Joins
<1>12. Joins(rows, b, D, d, 1, S) BY <1>1, <1>6, <1>7, <1>11, ConcatJoins
<1>13. rows \in [1 .. d + 1 -> S] /\ rows[d + 1] = Cls
  <2>1. d + 1 \in d + 1 .. d + 1 /\ (d + 1) - d = 1 BY <1>1
  <2> QED BY <1>6, <1>12, <2>1 DEF Joins
<1>14. Len(rows) = d + 1
  <2>1. d + 1 \in Nat BY <1>1
  <2> QED BY <1>13, <2>1, VectorIsSequence
<1>15. Len(rows) = GeomCount(r)
  <2>1. GeomCount(r) = p + n + m + 1 BY <1>p, <1>n, <1>m DEF GeomCount
  <2>2. d + 1 = p + n + m + 1 BY <1>1, <1>c, <1>d
  <2> QED BY <1>14, <2>1, <2>2
<1>16. Last(rows) = Cls BY <1>13, <1>14 DEF Last
<1>17. \A i \in 1 .. c : a[i] # Short
  <2>1. \A q, x : BoxRow(q, x, "this") # Short BY DEF BoxRow, Short
  <2>2. ASSUME NEW i \in 1 .. c PROVE a[i] # Short
    <3>1. i \in 1 .. p \/ (i \in p + 1 .. p + n /\ i - p \in 1 .. n) BY <1>1, <1>c
    <3>2. CASE i \in 1 .. p BY <1>2, <1>8, <2>1, <3>2 DEF Joins
    <3>3. CASE i \in p + 1 .. p + n /\ i - p \in 1 .. n
      <4>1. a[i] = N[i - p] BY <1>8, <3>3 DEF Joins
      <4>2. N[i - p] = BoxRow(r.neg[i - p], 0, "this") BY <1>3, <3>3
      <4> QED BY <2>1, <4>1, <4>2
    <3> QED BY <3>1, <3>2, <3>3
  <2> QED BY <2>2
<1>18. Converted(r) = a \o r.emb
  <2>1. [i \in 1 .. Len(r.pos) |-> Embedding(r.pos[i], TRUE, "this")] = P
        BY <1>P, EmbeddingIsRow DEF PositiveRows
  <2>2. [i \in 1 .. Len(r.neg) |-> Embedding(r.neg[i], FALSE, "this")] = N
        BY <1>N, EmbeddingIsRow DEF NegativeRows
  <2> QED BY <1>a, <2>1, <2>2 DEF Converted
<1>v. PICK v : v = Converted(r) OBVIOUS
<1>19. Joins(v, a, r.emb, c, m, S) BY <1>1, <1>5, <1>9, <1>18, <1>v, ConcatJoins
<1>20. v \in [1 .. d -> S] /\ Len(v) = d
  <2>1. v \in [1 .. d -> S] BY <1>19, <1>d DEF Joins
  <2> QED BY <1>1, <2>1, VectorIsSequence
<1>21. EmbeddingRows(v) = b
  <2>1. ASSUME NEW i \in 1 .. d PROVE Sized(v[i]) = b[i]
    <3>1. i \in 1 .. c \/ (i \in c + 1 .. c + m /\ i - c \in 1 .. m) BY <1>1, <1>d
    <3>2. CASE i \in 1 .. c
      <4>1. v[i] = a[i] /\ b[i] = a[i] BY <1>10, <1>19, <3>2 DEF Joins
      <4> QED BY <1>17, <3>2, <4>1 DEF Sized
    <3>3. CASE i \in c + 1 .. c + m /\ i - c \in 1 .. m
      <4>1. v[i] = r.emb[i - c] /\ b[i] = E[i - c] BY <1>10, <1>19, <3>3 DEF Joins
      <4>2. E[i - c] = Sized(r.emb[i - c]) BY <1>4, <3>3
      <4> QED BY <4>1, <4>2
    <3> QED BY <3>1, <3>2, <3>3
  <2>2. EmbeddingRows(v) = [i \in 1 .. d |-> Sized(v[i])] BY <1>20 DEF EmbeddingRows
  <2> QED BY <1>11, <2>1, <2>2
<1>22. GeomRows([pos |-> <<>>, neg |-> <<>>, emb |-> v], "other") = b \o D
  <2>1. PICK t : t = [pos |-> <<>>, neg |-> <<>>, emb |-> v] OBVIOUS
  <2>2. t.pos = <<>> /\ t.neg = <<>> /\ t.emb = v BY <2>1
  <2>3. ExemplarRows(t, "other") = <<>>
    <3>1. ExemplarRows(t, "other") =
             [i \in 1 .. 0 |-> BoxRow(t.pos[i], 1, "other")] \o [i \in 1 .. 0 |-> BoxRow(t.neg[i], 0, "other")]
          BY <2>2 DEF ExemplarRows
    <3>2. /\ [i \in 1 .. 0 |-> BoxRow(t.pos[i], 1, "other")] = <<>>
          /\ [i \in 1 .. 0 |-> BoxRow(t.neg[i], 0, "other")] = <<>>
          OBVIOUS
    <3>3. <<>> \o <<>> = <<>> OBVIOUS
    <3> QED BY <3>1, <3>2, <3>3
  <2>4. GeomRows(t, "other") = (ExemplarRows(t, "other") \o EmbeddingRows(v)) \o D
        BY <1>D, <2>2 DEF GeomRows, EmbeddingRows, Sized
  <2>5. b \in Seq(S) BY <1>1, <1>11, VectorIsSequence
  <2> QED BY <1>21, <2>1, <2>3, <2>4, <2>5, EmptyAround
<1> QED BY <1>7, <1>15, <1>16, <1>22, <1>v

\* The engine has been given the rows of the request, and not too many.
RowsInv ==
    /\ at = "masks" =>
         \/ path = "trt" /\ input = TrtSparse(request) /\ InProfile(Len(PvsTokens(request)))
         \/ path = "ggml" /\ input = GgmlSparse(request)
    /\ at = "queries" =>
         /\ input = GeomRows(request, "this")
         /\ path = "trt" => InProfile(GeomCount(request))

LEMMA InitRowsInv == Init => RowsInv
BY DEF Init, RowsInv

LEMMA NextRowsInv == RowsInv /\ [Next]_vars => RowsInv'
<1> SUFFICES ASSUME RowsInv, [Next]_vars PROVE RowsInv' OBVIOUS
<1>1. CASE Ask BY <1>1 DEF Ask, RowsInv
<1>2. CASE PvsTrt BY <1>2 DEF PvsTrt, To, RowsInv
<1>3. CASE PcsTrt BY <1>3 DEF PcsTrt, To, RowsInv
<1>4. CASE PvsGgml BY <1>4 DEF PvsGgml, To, RowsInv
<1>5. CASE PcsGgml BY <1>5 DEF PcsGgml, To, RowsInv
<1>6. CASE PvsRefused BY <1>6 DEF PvsRefused, To, RowsInv
<1>7. CASE ChooseMasks BY <1>7 DEF ChooseMasks, RowsInv
<1>8. CASE Threshold BY <1>8 DEF Threshold, RowsInv
<1>9. CASE NmsSkip \/ NmsKeep BY <1>9 DEF NmsSkip, NmsKeep, RowsInv
<1>10. CASE Number BY <1>10 DEF Number, RowsInv
<1>11. CASE UNCHANGED vars BY <1>11 DEF vars, RowsInv
<1> QED BY <1>1, <1>2, <1>3, <1>4, <1>5, <1>6, <1>7, <1>8, <1>9, <1>10, <1>11 DEF Next

LEMMA RowsReach == IInv /\ RowsInv => PromptReachesEngine
<1> SUFFICES ASSUME IInv, RowsInv PROVE PromptReachesEngine OBVIOUS
<1>1. ASSUME at = "masks"
      PROVE  /\ path = "trt" => Len(input) <= ProfileMax
             /\ PointRowsReach(request, input)
  <2>1. request \in PvsRequests BY <1>1 DEF IInv
  <2>2. /\ TrtSparse(request) = GgmlSparse(request)
        /\ Len(TrtSparse(request)) = Len(PvsTokens(request))
        /\ PointRowsReach(request, TrtSparse(request))
        BY <2>1, PointRows
  <2>3. /\ input = TrtSparse(request)
        /\ path = "trt" => InProfile(Len(PvsTokens(request)))
        BY <1>1, <2>2 DEF RowsInv
  <2> QED BY <2>2, <2>3 DEF InProfile
<1>2. ASSUME at = "queries"
      PROVE  /\ path = "trt" => Len(input) <= ProfileMax
             /\ Len(input) = GeomCount(request) /\ Last(input) = Cls
             /\ input = GeomRows([pos |-> <<>>, neg |-> <<>>, emb |-> Converted(request)], "other")
  <2>1. request \in PcsRequests BY <1>2 DEF IInv
  <2>2. /\ input = GeomRows(request, "this")
        /\ path = "trt" => InProfile(GeomCount(request))
        BY <1>2 DEF RowsInv
  <2>3. /\ Len(input) = GeomCount(request) /\ Last(input) = Cls
        /\ input = GeomRows([pos |-> <<>>, neg |-> <<>>, emb |-> Converted(request)], "other")
        BY <2>1, <2>2, ExemplarsReach
  <2> QED BY <2>2, <2>3 DEF InProfile
<1> QED BY <1>1, <1>2
        DEF PromptReachesEngine, PointRowsReach, Positive, Negative, Nowhere, Converted

(* Whatever is asked, by either path: sam3_build_sam_pe and                  *)
(* sam3_precompute_geom_input give the engine every token of the prompt and  *)
(* no other, as many as its caller has counted and as its profile admits,    *)
(* and an exemplar box is the same row as the embedding computed from it.    *)
THEOREM PromptsReachTheEngine == Spec => []PromptReachesEngine
BY InitIInv, NextIInv, InitRowsInv, NextRowsInv, RowsReach, PTL DEF Spec
-----------------------------------------------------------------------------
(* The measures of masks.                                                    *)

LEMMA DivMod ==
    ASSUME NEW a \in Nat, NEW w \in Nat \ {0}
    PROVE  a = w * (a \div w) + (a % w) /\ a % w \in 0 .. w - 1 /\ a \div w \in Nat
OBVIOUS

LEMMA RowBound ==
    ASSUME NEW w \in Nat \ {0}, NEW h \in Nat, NEW x \in 0 .. w - 1, NEW y \in Nat, w * y + x < w * h
    PROVE  y < h
<1> SUFFICES ASSUME y >= h PROVE FALSE OBVIOUS
<1>1. PICK d \in Nat : y = h + d
  <2>1. y - h \in Nat /\ y = h + (y - h) OBVIOUS
  <2> QED BY <2>1
<1>2. w * y = w * h + w * d BY <1>1
<1>3. w * d \in Nat /\ w * h \in Nat OBVIOUS
<1> QED BY <1>2, <1>3

LEMMA RowsApart ==
    ASSUME NEW w \in Nat \ {0}, NEW x \in 0 .. w - 1, NEW y \in Nat, NEW u \in 0 .. w - 1, NEW v \in Nat
    PROVE  w * y + x < w * v + u => y < v \/ (y = v /\ x < u)
<1> SUFFICES ASSUME w * y + x < w * v + u, y >= v PROVE y = v /\ x < u OBVIOUS
<1>1. PICK d \in Nat : y = v + d
  <2>1. y - v \in Nat /\ y = v + (y - v) OBVIOUS
  <2> QED BY <2>1
<1>2. w * y = w * v + w * d BY <1>1
<1>3. w * d \in Nat /\ w * v \in Nat OBVIOUS
<1>4. w * d < w BY <1>2, <1>3
<1>5. d = 0
  <2> SUFFICES ASSUME d # 0 PROVE FALSE OBVIOUS
  <2>1. PICK e \in Nat : d = e + 1
    <3>1. d - 1 \in Nat /\ d = (d - 1) + 1 OBVIOUS
    <3> QED BY <3>1
  <2>2. w * d = w * e + w /\ w * e \in Nat BY <2>1
  <2> QED BY <1>4, <2>2
<1> QED BY <1>1, <1>2, <1>5

LEMMA RowOfPlace ==
    ASSUME NEW w \in Nat \ {0}, NEW x \in 0 .. w - 1, NEW y \in Nat
    PROVE  (w * y + x) % w = x /\ (w * y + x) \div w = y
<1>1. PICK a : a = w * y + x OBVIOUS
<1>2. a \in Nat BY <1>1
<1>3. a = w * (a \div w) + (a % w) /\ a % w \in 0 .. w - 1 /\ a \div w \in Nat BY <1>2, DivMod
<1>4. PICK q \in Nat : q = a \div w BY <1>3
<1>5. PICK r \in 0 .. w - 1 : r = a % w BY <1>3
<1>6. w * y + x = w * q + r BY <1>1, <1>3, <1>4, <1>5
<1>7. y = q /\ x = r
  <2>1. w * y + x < w * q + (r + 1) BY <1>6
  <2>2. ~(w * y + x < w * q + r) /\ ~(w * q + r < w * y + x) BY <1>6
  <2>3. ~(y < q)
    <3> SUFFICES ASSUME y < q PROVE FALSE OBVIOUS
    <3>1. PICK d \in Nat : q = y + 1 + d
      <4>1. q - (y + 1) \in Nat /\ q = y + 1 + (q - (y + 1)) OBVIOUS
      <4> QED BY <4>1
    <3>2. w * q = w * y + w + w * d /\ w * d \in Nat /\ w * y \in Nat BY <3>1
    <3> QED BY <1>6, <3>2
  <2>4. ~(q < y)
    <3> SUFFICES ASSUME q < y PROVE FALSE OBVIOUS
    <3>1. PICK d \in Nat : y = q + 1 + d
      <4>1. y - (q + 1) \in Nat /\ y = q + 1 + (y - (q + 1)) OBVIOUS
      <4> QED BY <4>1
    <3>2. w * y = w * q + w + w * d /\ w * d \in Nat /\ w * q \in Nat BY <3>1
    <3> QED BY <1>6, <3>2
  <2>5. y = q BY <2>3, <2>4
  <2>6. w * y \in Nat /\ w * q = w * y BY <2>5
  <2> QED BY <1>6, <2>5, <2>6
<1> QED BY <1>1, <1>4, <1>5, <1>7

\* Every pixel is met, row by row.
Before(p, q) == p[2] < q[2] \/ (p[2] = q[2] /\ p[1] < q[1])
Place(x, y) == Width * y + x + 1

LEMMA RasterScans ==
    /\ Width * Height \in Nat
    /\ \A i \in 1 .. Width * Height : Raster[i] \in Pixels
    /\ \A i, j \in 1 .. Width * Height : i < j => Before(Raster[i], Raster[j])
    /\ \A p \in Pixels : \E i \in 1 .. Width * Height : Raster[i] = p
<1>0. Width \in Nat \ {0} /\ Height \in Nat \ {0} BY SizesAssumption
<1>1. Width * Height \in Nat BY <1>0
<1>2. \A i \in 1 .. Width * Height : Raster[i] = <<(i - 1) % Width, (i - 1) \div Width>> BY DEF Raster
<1>3. ASSUME NEW i \in 1 .. Width * Height
      PROVE  /\ (i - 1) \in Nat
             /\ i - 1 = Width * ((i - 1) \div Width) + ((i - 1) % Width)
             /\ (i - 1) % Width \in 0 .. Width - 1
             /\ (i - 1) \div Width \in 0 .. Height - 1
  <2>1. PICK a \in Nat : a = i - 1 /\ a < Width * Height BY <1>1
  <2>2. /\ a = Width * (a \div Width) + (a % Width)
        /\ a % Width \in 0 .. Width - 1 /\ a \div Width \in Nat
        BY <1>0, DivMod
  <2>3. PICK y \in Nat : y = a \div Width BY <2>2
  <2>4. PICK x \in 0 .. Width - 1 : x = a % Width BY <2>2
  <2>5. Width * y + x < Width * Height BY <2>1, <2>2, <2>3, <2>4
  <2>6. y < Height BY <1>0, <2>5, RowBound
  <2>7. y \in 0 .. Height - 1 BY <1>0, <2>6
  <2> QED BY <2>1, <2>2, <2>3, <2>7
<1>4. ASSUME NEW i \in 1 .. Width * Height PROVE Raster[i] \in Pixels
  <2>1. PICK x \in 0 .. Width - 1 : x = (i - 1) % Width BY <1>3
  <2>2. PICK y \in 0 .. Height - 1 : y = (i - 1) \div Width BY <1>3
  <2>3. Raster[i] = <<x, y>> BY <1>2, <2>1, <2>2
  <2> QED BY <2>3 DEF Pixels
<1>5. ASSUME NEW i \in 1 .. Width * Height, NEW j \in 1 .. Width * Height, i < j
      PROVE  Before(Raster[i], Raster[j])
  <2>1. PICK x \in 0 .. Width - 1 : x = (i - 1) % Width BY <1>3
  <2>2. PICK y \in 0 .. Height - 1 : y = (i - 1) \div Width BY <1>3
  <2>3. PICK u \in 0 .. Width - 1 : u = (j - 1) % Width BY <1>3
  <2>4. PICK v \in 0 .. Height - 1 : v = (j - 1) \div Width BY <1>3
  <2>5. i - 1 = Width * y + x /\ j - 1 = Width * v + u BY <1>3, <2>1, <2>2, <2>3, <2>4
  <2>6. i - 1 < j - 1 BY <1>5
  <2>7. Width * y + x < Width * v + u BY <2>5, <2>6
  <2>8. y \in Nat /\ v \in Nat BY <1>0
  <2>9. y < v \/ (y = v /\ x < u) BY <1>0, <2>7, <2>8, RowsApart
  <2>10. Raster[i] = <<x, y>> /\ Raster[j] = <<u, v>> BY <1>2, <2>1, <2>2, <2>3, <2>4
  <2> QED BY <2>9, <2>10 DEF Before
<1>6. ASSUME NEW x \in 0 .. Width - 1, NEW y \in 0 .. Height - 1
      PROVE  \E i \in 1 .. Width * Height : Raster[i] = <<x, y>>
  <2>1. y \in Nat BY <1>0
  <2>2. PICK a : a = Width * y + x OBVIOUS
  <2>3. a \in Nat /\ a % Width = x /\ a \div Width = y
    <3>1. a \in Nat BY <1>0, <2>1, <2>2
    <3>2. (Width * y + x) % Width = x /\ (Width * y + x) \div Width = y BY <1>0, <2>1, RowOfPlace
    <3> QED BY <2>2, <3>1, <3>2
  <2>4. a < Width * Height
    <3>1. PICK d \in Nat : Height = y + 1 + d
      <4>1. Height - (y + 1) \in Nat /\ Height = y + 1 + (Height - (y + 1)) BY <1>0
      <4> QED BY <4>1
    <3>2. Width * Height = Width * y + Width + Width * d /\ Width * d \in Nat /\ Width * y \in Nat
          BY <1>0, <2>1, <3>1
    <3> QED BY <1>0, <2>2, <3>2
  <2>5. PICK i : i = a + 1 OBVIOUS
  <2>6. i \in 1 .. Width * Height /\ i - 1 = a BY <1>1, <2>3, <2>4, <2>5
  <2>7. Raster[i] = <<x, y>> BY <1>2, <2>3, <2>6
  <2> QED BY <2>6, <2>7
<1>7. \A p \in Pixels : \E i \in 1 .. Width * Height : Raster[i] = p
  <2> SUFFICES ASSUME NEW p \in Pixels PROVE \E i \in 1 .. Width * Height : Raster[i] = p OBVIOUS
  <2>1. PICK x \in 0 .. Width - 1, y \in 0 .. Height - 1 : p = <<x, y>> BY DEF Pixels
  <2> QED BY <1>6, <2>1
<1> QED BY <1>1, <1>4, <1>5, <1>7

\* What a scan of a mask's row for its ends finds.
LEMMA Extremes ==
    ASSUME NEW m \in Nat, NEW T, T \subseteq 0 .. m, T # {}
    PROVE  /\ Min(T) \in T /\ \A n \in T : Min(T) <= n
           /\ Max(T) \in T /\ \A n \in T : n <= Max(T)
<1>1. \E x \in T : \A n \in T : x <= n
  <2>1. T \subseteq Nat OBVIOUS
  <2> QED BY <2>1, LeastExists
<1>2. \E x \in T : \A n \in T : x >= n
  <2> DEFINE U == {m - n : n \in T}
  <2>1. U \subseteq Nat /\ U # {}
    <3>1. \A n \in T : m - n \in Nat OBVIOUS
    <3> QED BY <3>1
  <2> HIDE DEF U
  <2>2. PICK u \in U : \A n \in U : u <= n BY <2>1, LeastExists
  <2>3. PICK x \in T : u = m - x BY <2>2 DEF U
  <2>4. ASSUME NEW n \in T PROVE x >= n
    <3>1. m - n \in U BY DEF U
    <3>2. m - x <= m - n BY <2>2, <2>3, <3>1
    <3>3. x \in 0 .. m /\ n \in 0 .. m OBVIOUS
    <3> QED BY <3>2, <3>3
  <2> QED BY <2>4
<1>3. Min(T) \in T /\ \A n \in T : Min(T) <= n BY <1>1 DEF Min
<1>4. Max(T) \in T /\ \A n \in T : Max(T) >= n BY <1>2 DEF Max
<1>5. \A n \in T : n <= Max(T)
  <2>1. \A n \in T : n \in Int OBVIOUS
  <2> QED BY <1>4, <2>1
<1> QED BY <1>3, <1>4, <1>5

\* The box of a mask with foreground is the least that holds it.
Bounds(b, mask) ==
    /\ b.x0 \in 0 .. Width - 1 /\ b.x1 \in 0 .. Width - 1
    /\ b.y0 \in 0 .. Height - 1 /\ b.y1 \in 0 .. Height - 1
    /\ \A p \in mask : b.x0 <= p[1] /\ p[1] <= b.x1 /\ b.y0 <= p[2] /\ p[2] <= b.y1
    /\ \E p \in mask : p[1] = b.x0
    /\ \E p \in mask : p[1] = b.x1

LEMMA MaskBoxBounds ==
    ASSUME NEW mask \in SUBSET Pixels, mask # {}
    PROVE  Bounds(MaskBox(mask), mask)
<1>0. Width \in Nat \ {0} /\ Height \in Nat \ {0} BY SizesAssumption
<1>1. \A p \in mask : p[1] \in 0 .. Width - 1 /\ p[2] \in 0 .. Height - 1 BY DEF Pixels
<1>X. PICK X : X = {p[1] : p \in mask} OBVIOUS
<1>Y. PICK Y : Y = {p[2] : p \in mask} OBVIOUS
<1>2. /\ Min(X) \in X /\ \A n \in X : Min(X) <= n
      /\ Max(X) \in X /\ \A n \in X : n <= Max(X)
  <2>1. Width - 1 \in Nat BY <1>0
  <2>2. X \subseteq 0 .. Width - 1 /\ X # {} BY <1>1, <1>X
  <2> QED BY <2>1, <2>2, Extremes
<1>3. /\ Min(Y) \in Y /\ \A n \in Y : Min(Y) <= n
      /\ Max(Y) \in Y /\ \A n \in Y : n <= Max(Y)
  <2>1. Height - 1 \in Nat BY <1>0
  <2>2. Y \subseteq 0 .. Height - 1 /\ Y # {} BY <1>1, <1>Y
  <2> QED BY <2>1, <2>2, Extremes
<1>b. PICK b : b = MaskBox(mask) OBVIOUS
<1>4. b.x0 = Min(X) /\ b.x1 = Max(X) /\ b.y0 = Min(Y) /\ b.y1 = Max(Y)
      BY <1>b, <1>X, <1>Y DEF MaskBox
<1>5. /\ b.x0 \in 0 .. Width - 1 /\ b.x1 \in 0 .. Width - 1
      /\ b.y0 \in 0 .. Height - 1 /\ b.y1 \in 0 .. Height - 1
  <2>1. X \subseteq 0 .. Width - 1 /\ Y \subseteq 0 .. Height - 1 BY <1>1, <1>X, <1>Y
  <2> QED BY <1>2, <1>3, <1>4, <2>1
<1>6. ASSUME NEW p \in mask PROVE b.x0 <= p[1] /\ p[1] <= b.x1 /\ b.y0 <= p[2] /\ p[2] <= b.y1
  <2>1. p[1] \in X /\ p[2] \in Y BY <1>X, <1>Y
  <2> QED BY <1>2, <1>3, <1>4, <2>1
<1>7. (\E p \in mask : p[1] = b.x0) /\ (\E p \in mask : p[1] = b.x1) BY <1>2, <1>4, <1>X
<1> QED BY <1>5, <1>6, <1>7, <1>b DEF Bounds

\* The coordinates are the foreground, row by row, each once.
LEMMA CoordsAreForeground ==
    ASSUME NEW mask \in SUBSET Pixels, NEW coords, coords = sam3_mask_coords(mask)
    PROVE  /\ coords \in Seq(Pixels)
           /\ ToSet(coords) = mask
           /\ \A m, n \in 1 .. Len(coords) : m < n => Before(coords[m], coords[n])
<1>l. PICK l : l = Width * Height OBVIOUS
<1>1. /\ l \in Nat
      /\ \A i \in 1 .. l : Raster[i] \in Pixels
      /\ \A i, j \in 1 .. l : i < j => Before(Raster[i], Raster[j])
      /\ \A p \in Pixels : \E i \in 1 .. l : Raster[i] = p
      BY <1>l, RasterScans
<1>s. PICK s : s = Raster OBVIOUS
<1>2. s \in [1 .. l -> Pixels] BY <1>1, <1>l, <1>s DEF Raster
<1>3. s \in Seq(Pixels) /\ Len(s) = l BY <1>1, <1>2, VectorIsSequence
<1>f. PICK front : front = Foreground(mask) OBVIOUS
<1>4. PICK e : Selects(coords, e, s, l, front, Pixels)
  <2>1. coords = Selected(s, front) BY <1>s, <1>f DEF sam3_mask_coords
  <2> QED BY <1>3, <2>1, SelectedSelects
<1>5. /\ coords \in Seq(Pixels) /\ e \in [1 .. Len(coords) -> 1 .. l]
      /\ \A k_ \in 1 .. Len(coords) : e[k_] \in front /\ coords[k_] = s[e[k_]]
      BY <1>4 DEF Selects
<1>6. \A m, n \in 1 .. Len(coords) : m < n => e[m] < e[n] BY <1>4 DEF Selects
<1>7. \A i \in 1 .. l : i \in front => \E k_ \in 1 .. Len(coords) : e[k_] = i BY <1>4 DEF Selects
<1>8. front = {i \in 1 .. l : s[i] \in mask} BY <1>f, <1>l, <1>s DEF Foreground
<1>9. DOMAIN coords = 1 .. Len(coords) BY <1>5
<1>10. ASSUME NEW m \in DOMAIN coords PROVE coords[m] \in mask BY <1>5, <1>8, <1>9
<1>11. ASSUME NEW p \in mask PROVE \E m \in DOMAIN coords : coords[m] = p
  <2>1. PICK i \in 1 .. l : s[i] = p BY <1>1, <1>s
  <2>2. PICK m \in 1 .. Len(coords) : e[m] = i BY <1>7, <1>8, <2>1
  <2> QED BY <1>5, <1>9, <2>1, <2>2
<1>12. ToSet(coords) = mask BY <1>10, <1>11 DEF ToSet
<1>13. ASSUME NEW m \in 1 .. Len(coords), NEW n \in 1 .. Len(coords), m < n
       PROVE  Before(coords[m], coords[n])
  <2>1. e[m] \in 1 .. l /\ e[n] \in 1 .. l /\ e[m] < e[n] BY <1>5, <1>6, <1>13
  <2>2. Before(s[e[m]], s[e[n]]) BY <1>1, <1>s, <2>1
  <2> QED BY <1>5, <2>2
<1> QED BY <1>5, <1>12, <1>13

LEMMA CoordsCounted ==
    ASSUME NEW mask \in SUBSET Pixels
    PROVE  Len(sam3_mask_coords(mask)) = sam3_mask_area(mask)
<1>c. PICK coords : coords = sam3_mask_coords(mask) OBVIOUS
<1>1. /\ coords \in Seq(Pixels) /\ ToSet(coords) = mask
      /\ \A m, n \in 1 .. Len(coords) : m < n => Before(coords[m], coords[n])
      BY <1>c, CoordsAreForeground
<1>l. PICK l : l = Len(coords) OBVIOUS
<1>2. l \in Nat /\ DOMAIN coords = 1 .. l BY <1>1, <1>l
<1>3. \A m \in 1 .. l : coords[m] \in Pixels BY <1>1, <1>2
<1>4. \A p \in Pixels : ~Before(p, p)
  <2>1. \A p \in Pixels : p[1] \in Int /\ p[2] \in Int BY SizesAssumption DEF Pixels
  <2> QED BY <2>1 DEF Before
<1>5. ASSUME NEW m \in 1 .. l, NEW n \in 1 .. l, coords[m] = coords[n] PROVE m = n
  <2>1. ~(m < n) /\ ~(n < m) BY <1>1, <1>3, <1>4, <1>5, <1>l
  <2> QED BY <1>2, <2>1
<1>6. coords \in [1 .. l -> mask]
  <2>1. \A m \in 1 .. l : coords[m] \in mask BY <1>1, <1>2 DEF ToSet
  <2>2. coords \in [1 .. l -> Pixels] BY <1>1, <1>l, LenProperties
  <2> QED BY <2>1, <2>2
<1>7. coords \in Bijection(1 .. l, mask)
  <2>1. coords \in Injection(1 .. l, mask) BY <1>2, <1>5, <1>6 DEF Injection, IsInjective
  <2>2. \A p \in mask : \E m \in 1 .. l : coords[m] = p BY <1>1, <1>2 DEF ToSet
  <2>3. coords \in Surjection(1 .. l, mask) BY <1>6, <2>2 DEF Surjection
  <2> QED BY <2>1, <2>3 DEF Bijection
<1>8. ExistsBijection(1 .. l, mask) BY <1>7 DEF ExistsBijection
<1>9. IsFiniteSet(1 .. l) /\ Cardinality(1 .. l) = l
  <2>1. Cardinality(1 .. l) = IF 1 > l THEN 0 ELSE l - 1 + 1 BY <1>2, FS_Interval
  <2> QED BY <1>2, <2>1, FS_Interval
<1>10. Cardinality(mask) = l BY <1>8, <1>9, FS_Bijection
<1>11. {p \in Pixels : p \in mask} = mask OBVIOUS
<1> QED BY <1>10, <1>11, <1>c, <1>l DEF sam3_mask_area

\* The loop that adds up the values of the foreground.
Sums(f, N, front, value) ==
    /\ f \in [0 .. N -> Int] /\ f[0] = 0
    /\ \A i \in 1 .. N : f[i] = IF i \in front THEN f[i - 1] + value[i] ELSE f[i - 1]

LEMMA SumSums ==
    ASSUME NEW mask, NEW value \in [1 .. Width * Height -> Int]
    PROVE  \E f : Sums(f, Width * Height, Foreground(mask), value)
                  /\ Sum(mask, value) = f[Width * Height]
<1>n. PICK N : N = Width * Height OBVIOUS
<1>1. N \in Nat BY <1>n, SizesAssumption
<1>f. PICK front : front = Foreground(mask) OBVIOUS
<1> DEFINE step == [n \in Nat |-> [x \in Int |->
                      IF n \in front /\ n \in 1 .. N THEN x + value[n] ELSE x]]
           IsLoop(f) == f = [i \in 0 .. N |->
                               IF i = 0 THEN 0
                               ELSE IF i \in front THEN f[i - 1] + value[i] ELSE f[i - 1]]
           loop == CHOOSE f : IsLoop(f)
<1>2. step \in [Nat -> [Int -> Int]]
  <2>1. ASSUME NEW n \in Nat, NEW x \in Int
        PROVE  (IF n \in front /\ n \in 1 .. N THEN x + value[n] ELSE x) \in Int
    <3>1. n \in 1 .. N => value[n] \in Int BY <1>n
    <3> QED BY <3>1
  <2> QED BY <2>1
<1>3. PICK g : Iterates(g, N, Int, 0, step)
  <2>1. 0 \in Int OBVIOUS
  <2> HIDE DEF step
  <2> QED BY <1>1, <1>2, <2>1, Recursion
<1>4. /\ g \in [0 .. N -> Int] /\ g[0] = 0
      /\ \A n \in 1 .. N : g[n] = step[n][g[n - 1]]
      BY <1>3 DEF Iterates
<1>5. ASSUME NEW i \in 1 .. N
      PROVE  g[i] = IF i \in front THEN g[i - 1] + value[i] ELSE g[i - 1]
  <2>1. i \in Nat /\ i - 1 \in 0 .. N BY <1>1
  <2>2. g[i - 1] \in Int BY <1>4, <2>1
  <2>3. step[i][g[i - 1]] = IF i \in front /\ i \in 1 .. N THEN g[i - 1] + value[i] ELSE g[i - 1]
        BY <2>1, <2>2
  <2> QED BY <1>4, <2>3
<1>6. IsLoop(g)
  <2>1. g = [i \in 0 .. N |-> g[i]] BY <1>4
  <2>2. \A i \in 0 .. N : i = 0 \/ i \in 1 .. N BY <1>1
  <2>3. ASSUME NEW i \in 0 .. N
        PROVE  g[i] = IF i = 0 THEN 0
                      ELSE IF i \in front THEN g[i - 1] + value[i] ELSE g[i - 1]
        BY <1>4, <1>5, <2>2
  <2> QED BY <2>1, <2>3
<1>7. IsLoop(loop)
  <2> HIDE DEF IsLoop
  <2> QED BY <1>6
<1>8. Sum(mask, value) = loop[N] BY <1>n, <1>f DEF Sum
<1> HIDE DEF loop, step
<1>9. /\ loop[0] = 0
      /\ \A i \in 1 .. N : loop[i] = IF i \in front THEN loop[i - 1] + value[i] ELSE loop[i - 1]
  <2>1. 0 \in 0 .. N /\ \A i \in 1 .. N : i \in 0 .. N /\ i # 0 BY <1>1
  <2> QED BY <1>7, <2>1
<1>10. loop = [i \in 0 .. N |-> loop[i]] BY <1>7
<1> HIDE DEF IsLoop
<1>11. 0 .. N \subseteq {n \in Nat : n <= N => loop[n] \in Int}
  <2> DEFINE typed == {n \in Nat : n <= N => loop[n] \in Int}
  <2>1. 0 \in typed BY <1>9
  <2>2. ASSUME NEW n \in Nat, n \in typed PROVE n + 1 \in typed
    <3> SUFFICES ASSUME n + 1 <= N PROVE loop[n + 1] \in Int OBVIOUS
    <3>1. n + 1 \in 1 .. N /\ (n + 1) - 1 = n /\ loop[n] \in Int BY <1>1, <2>2
    <3>2. value[n + 1] \in Int BY <1>n, <3>1
    <3> QED BY <1>9, <3>1, <3>2
  <2> HIDE DEF typed
  <2>3. Nat \subseteq typed BY <2>1, <2>2, SetInduction
  <2> QED BY <2>3 DEF typed
<1>12. Sums(loop, N, front, value)
  <2>1. \A i \in 0 .. N : loop[i] \in Int BY <1>1, <1>11
  <2>2. loop \in [0 .. N -> Int] BY <1>10, <2>1
  <2> QED BY <1>9, <2>2 DEF Sums
<1> QED BY <1>8, <1>12, <1>n, <1>f

Between(f, n, j, front, lo, hi) ==
    /\ n[j] \in Nat /\ lo * n[j] <= f[j] /\ f[j] <= hi * n[j]
    /\ (n[j] = 0) = (\A i \in 1 .. j : i \notin front)

\* A sum of values between lo and hi is between lo and hi times their number.
LEMMA SumsBounded ==
    ASSUME NEW N \in Nat, NEW front, NEW one, NEW value, NEW lo \in Int, NEW hi \in Int,
           NEW n, Sums(n, N, front, one), NEW f, Sums(f, N, front, value),
           \A i \in 1 .. N : one[i] = 1,
           \A i \in 1 .. N : i \in front => value[i] \in Int /\ lo <= value[i] /\ value[i] <= hi
    PROVE  Between(f, n, N, front, lo, hi)
<1> DEFINE bounded == {m \in Nat : m <= N => Between(f, n, m, front, lo, hi)}
<1>1. 0 \in bounded
  <2>1. n[0] = 0 /\ f[0] = 0 BY DEF Sums
  <2>2. lo * 0 = 0 /\ hi * 0 = 0 OBVIOUS
  <2>3. 1 .. 0 = {} OBVIOUS
  <2>4. \A i \in 1 .. 0 : i \notin front BY <2>3
  <2>5. n[0] \in Nat /\ lo * n[0] <= f[0] /\ f[0] <= hi * n[0] BY <2>1, <2>2
  <2>6. Between(f, n, 0, front, lo, hi) BY <2>1, <2>4, <2>5 DEF Between
  <2> QED BY <2>6
<1>2. ASSUME NEW m \in Nat, m \in bounded PROVE m + 1 \in bounded
  <2> SUFFICES ASSUME m + 1 <= N PROVE Between(f, n, m + 1, front, lo, hi) OBVIOUS
  <2>1. /\ n[m] \in Nat /\ lo * n[m] <= f[m] /\ f[m] <= hi * n[m]
        /\ (n[m] = 0) = (\A i \in 1 .. m : i \notin front)
    <3>1. m <= N OBVIOUS
    <3>2. Between(f, n, m, front, lo, hi) BY <1>2, <3>1
    <3> QED BY <3>2 DEF Between
  <2>j. PICK j : j = m + 1 OBVIOUS
  <2>2. j \in 1 .. N /\ j - 1 = m /\ m \in 0 .. N BY <2>j
  <2>3. 1 .. j = (1 .. m) \cup {j} BY <2>j
  <2>4. f[m] \in Int BY <2>2 DEF Sums
  <2>5. CASE j \in front
    <3>1. n[j] = n[m] + 1 BY <2>2, <2>5 DEF Sums
    <3>2. f[j] = f[m] + value[j] BY <2>2, <2>5 DEF Sums
    <3>3. value[j] \in Int /\ lo <= value[j] /\ value[j] <= hi BY <2>2, <2>5
    <3>4. PICK a \in Nat : a = n[m] BY <2>1
    <3>5. PICK b \in Int : b = f[m] BY <2>4
    <3>6. PICK v \in Int : v = value[j] BY <3>3
    <3>7. lo * (a + 1) = lo * a + lo /\ hi * (a + 1) = hi * a + hi BY <3>4
    <3>8. lo * (a + 1) <= b + v /\ b + v <= hi * (a + 1)
      <4>1. PICK c \in Int : c = lo * a OBVIOUS
      <4>2. PICK d \in Int : d = hi * a OBVIOUS
      <4>3. c <= b /\ b <= d BY <2>1, <3>4, <3>5, <4>1, <4>2
      <4>4. c + lo <= b + v /\ b + v <= d + hi BY <3>3, <3>6, <4>3
      <4> QED BY <3>7, <4>1, <4>2, <4>4
    <3>9. n[j] # 0 /\ n[j] \in Nat BY <3>1, <3>4
    <3>10. ~(\A i \in 1 .. j : i \notin front) BY <2>3, <2>5
    <3>11. lo * n[j] <= f[j] /\ f[j] <= hi * n[j] BY <3>1, <3>2, <3>4, <3>5, <3>6, <3>8
    <3> QED BY <2>j, <3>9, <3>10, <3>11 DEF Between
  <2>6. CASE j \notin front
    <3>1. n[j] = n[m] /\ f[j] = f[m] BY <2>2, <2>6 DEF Sums
    <3>2. (\A i \in 1 .. j : i \notin front) = (\A i \in 1 .. m : i \notin front) BY <2>3, <2>6
    <3> QED BY <2>1, <2>j, <3>1, <3>2 DEF Between
  <2> QED BY <2>5, <2>6
<1> HIDE DEF bounded
<1>3. N \in bounded BY <1>1, <1>2, SetInduction
<1> QED BY <1>3 DEF bounded

\* The centroid of a mask with foreground lies in its box.
LEMMA CentroidInBox ==
    ASSUME NEW mask \in SUBSET Pixels, mask # {},
           NEW b, Bounds(b, mask), NEW c, c = sam3_mask_centroid(mask)
    PROVE  /\ b.x0 * c.n <= c.x /\ c.x <= b.x1 * c.n
           /\ b.y0 * c.n <= c.y /\ c.y <= b.y1 * c.n
<1>n. PICK N : N = Width * Height OBVIOUS
<1>f. PICK front : front = Foreground(mask) OBVIOUS
<1>1. /\ N \in Nat /\ \A i \in 1 .. N : Raster[i] \in Pixels
      /\ \A p \in Pixels : \E i \in 1 .. N : Raster[i] = p
      BY <1>n, RasterScans
<1>2. front = {i \in 1 .. N : Raster[i] \in mask} BY <1>n, <1>f DEF Foreground
<1>3. \A i \in 1 .. N : Raster[i][1] \in Int /\ Raster[i][2] \in Int
  <2>1. \A p \in Pixels : p[1] \in Int /\ p[2] \in Int BY SizesAssumption DEF Pixels
  <2> QED BY <1>1, <2>1
<1>v. PICK one : one = [i \in 1 .. N |-> 1] OBVIOUS
<1>w. PICK xs : xs = [i \in 1 .. N |-> Raster[i][1]] OBVIOUS
<1>z. PICK ys : ys = [i \in 1 .. N |-> Raster[i][2]] OBVIOUS
<1>4. one \in [1 .. N -> Int] /\ xs \in [1 .. N -> Int] /\ ys \in [1 .. N -> Int]
      BY <1>3, <1>v, <1>w, <1>z
<1>5. PICK n : Sums(n, N, front, one) /\ Sum(mask, one) = n[N] BY <1>4, <1>n, <1>f, SumSums
<1>6. PICK x : Sums(x, N, front, xs) /\ Sum(mask, xs) = x[N] BY <1>4, <1>n, <1>f, SumSums
<1>7. PICK y : Sums(y, N, front, ys) /\ Sum(mask, ys) = y[N] BY <1>4, <1>n, <1>f, SumSums
<1>8. b.x0 \in Int /\ b.x1 \in Int /\ b.y0 \in Int /\ b.y1 \in Int
      BY SizesAssumption DEF Bounds
<1>9. \A i \in 1 .. N : one[i] = 1 BY <1>v
<1>10. \A i \in 1 .. N : i \in front => xs[i] \in Int /\ b.x0 <= xs[i] /\ xs[i] <= b.x1
       BY <1>2, <1>3, <1>w DEF Bounds
<1>11. \A i \in 1 .. N : i \in front => ys[i] \in Int /\ b.y0 <= ys[i] /\ ys[i] <= b.y1
       BY <1>2, <1>3, <1>z DEF Bounds
<1>12. Between(x, n, N, front, b.x0, b.x1)
  <2>1. PICK lo \in Int : lo = b.x0 BY <1>8
  <2>2. PICK hi \in Int : hi = b.x1 BY <1>8
  <2>3. \A i \in 1 .. N : i \in front => xs[i] \in Int /\ lo <= xs[i] /\ xs[i] <= hi
        BY <1>10, <2>1, <2>2
  <2>4. Between(x, n, N, front, lo, hi) BY <1>1, <1>5, <1>6, <1>9, <2>3, SumsBounded
  <2> QED BY <2>1, <2>2, <2>4
<1>13. Between(y, n, N, front, b.y0, b.y1)
  <2>1. PICK lo \in Int : lo = b.y0 BY <1>8
  <2>2. PICK hi \in Int : hi = b.y1 BY <1>8
  <2>3. \A i \in 1 .. N : i \in front => ys[i] \in Int /\ lo <= ys[i] /\ ys[i] <= hi
        BY <1>11, <2>1, <2>2
  <2>4. Between(y, n, N, front, lo, hi) BY <1>1, <1>5, <1>7, <1>9, <2>3, SumsBounded
  <2> QED BY <2>1, <2>2, <2>4
<1>14. n[N] # 0
  <2>1. PICK p \in mask : TRUE OBVIOUS
  <2>2. PICK i \in 1 .. N : Raster[i] = p BY <1>1, <2>1
  <2>3. i \in front BY <1>2, <2>1, <2>2
  <2> QED BY <1>12, <2>2, <2>3 DEF Between
<1>15. c = [x |-> x[N], y |-> y[N], n |-> n[N]]
  <2>1. Sum(mask, [i \in 1 .. Width * Height |-> 1]) = n[N] BY <1>5, <1>n, <1>v
  <2>2. Sum(mask, [i \in 1 .. Width * Height |-> Raster[i][1]]) = x[N] BY <1>6, <1>n, <1>w
  <2>3. Sum(mask, [i \in 1 .. Width * Height |-> Raster[i][2]]) = y[N] BY <1>7, <1>n, <1>z
  <2> QED BY <1>14, <2>1, <2>2, <2>3 DEF sam3_mask_centroid
<1>16. c.x = x[N] /\ c.y = y[N] /\ c.n = n[N] BY <1>15
<1>17. /\ b.x0 * n[N] <= x[N] /\ x[N] <= b.x1 * n[N]
       /\ b.y0 * n[N] <= y[N] /\ y[N] <= b.y1 * n[N]
       BY <1>12, <1>13 DEF Between
<1> QED BY <1>16, <1>17

\* A mask of the result is one of the engine's, with the box that was scanned.
MasksInv ==
    /\ at \in {"idle", "pvs", "pcs", "masks", "queries"} => result = <<>>
    /\ at = "done" /\ request \in PvsRequests =>
          \A i \in 1 .. Len(result) :
             result[i].mask \in Masks /\ result[i].box = MaskBox(result[i].mask)

LEMMA InitMasksInv == Init => MasksInv
BY DEF Init, MasksInv

LEMMA NextMasksInv == IInv /\ MasksInv /\ [Next]_vars => MasksInv'
<1> SUFFICES ASSUME IInv, MasksInv, [Next]_vars PROVE MasksInv' OBVIOUS
<1>1. CASE Ask BY <1>1 DEF Ask, MasksInv
<1>2. CASE PvsTrt \/ PvsGgml BY <1>2 DEF PvsTrt, PvsGgml, To, MasksInv
<1>3. CASE PcsTrt \/ PcsGgml BY <1>3 DEF PcsTrt, PcsGgml, To, MasksInv
<1>4. CASE PvsRefused
  <2>1. result' = <<>> /\ at' = "done" BY <1>4 DEF PvsRefused, To, MasksInv
  <2>2. Len(<<>>) = 0 OBVIOUS
  <2>3. 1 .. Len(result') = {} BY <2>1, <2>2
  <2> QED BY <2>1, <2>3 DEF MasksInv
<1>5. CASE ChooseMasks
  <2>1. PICK raw \in [0 .. MultiMasks -> Masks] :
           result' = [i \in 1 .. Len(Chosen(request)) |->
                        [mask |-> raw[Chosen(request)[i]], box |-> MaskBox(raw[Chosen(request)[i]]),
                         instance_id |-> Chosen(request)[i]]]
        BY <1>5 DEF ChooseMasks
  <2>c. PICK chosen : chosen = Chosen(request) OBVIOUS
  <2>l. PICK l : l = Len(chosen) OBVIOUS
  <2>2. /\ l \in Nat /\ \A i \in 1 .. l : chosen[i] \in 0 .. MultiMasks
    <3>1. CASE request.multimask
      <4>1. chosen = [i \in 1 .. MultiMasks |-> i] BY <2>c, <3>1 DEF Chosen
      <4>2. chosen \in [1 .. MultiMasks -> 0 .. MultiMasks] BY <4>1, SizesAssumption
      <4>3. l = MultiMasks BY <4>2, <2>l, SizesAssumption, VectorIsSequence
      <4> QED BY <4>1, <4>3, SizesAssumption
    <3>2. CASE ~request.multimask
      <4>1. chosen = <<0>> BY <2>c, <3>2 DEF Chosen
      <4> QED BY <4>1, <2>l, SizesAssumption
    <3> QED BY <3>1, <3>2
  <2>3. result' = [i \in 1 .. l |->
                     [mask |-> raw[chosen[i]], box |-> MaskBox(raw[chosen[i]]), instance_id |-> chosen[i]]]
        BY <2>1, <2>c, <2>l
  <2>4. Len(result') = l
    <3>1. result' \in [1 .. l -> {result'[i] : i \in 1 .. l}] BY <2>3
    <3> QED BY <2>2, <3>1, VectorIsSequence
  <2>5. ASSUME NEW i \in 1 .. l
        PROVE  result'[i].mask \in Masks /\ result'[i].box = MaskBox(result'[i].mask)
    <3>1. result'[i] = [mask |-> raw[chosen[i]], box |-> MaskBox(raw[chosen[i]]), instance_id |-> chosen[i]]
          BY <2>3
    <3>2. raw[chosen[i]] \in Masks BY <2>1, <2>2
    <3> QED BY <3>1, <3>2
  <2>6. at' = "done" BY <1>5 DEF ChooseMasks
  <2> QED BY <2>4, <2>5, <2>6 DEF MasksInv
<1>6. CASE Threshold BY <1>6 DEF Threshold, MasksInv
<1>7. CASE NmsSkip \/ NmsKeep BY <1>7 DEF NmsSkip, NmsKeep, MasksInv
<1>8. CASE Number
  <2>1. request \in PcsRequests BY <1>8 DEF Number, IInv
  <2>2. at' = "done" /\ request' \notin PvsRequests
        BY <1>8, <2>1, RequestsAssumption DEF Number
  <2> QED BY <2>2 DEF MasksInv
<1>9. CASE UNCHANGED vars BY <1>9 DEF vars, MasksInv
<1> QED BY <1>1, <1>2, <1>3, <1>4, <1>5, <1>6, <1>7, <1>8, <1>9 DEF Next

\* What MasksMeasured says of one mask and its detection's box.
Measured(mask, box) ==
    LET coords == sam3_mask_coords(mask)
        b == sam3_mask_bbox(mask)
        c == sam3_mask_centroid(mask)
    IN  /\ ToSet(coords) = mask /\ Len(coords) = sam3_mask_area(mask)
        /\ \A m, n \in 1 .. Len(coords) : m < n =>
              \/ coords[m][2] < coords[n][2]
              \/ coords[m][2] = coords[n][2] /\ coords[m][1] < coords[n][1]
        /\ \A x \in -1 .. Width, y \in -1 .. Height :
              sam3_mask_at(mask, x, y) = (<<x, y>> \in mask)
        /\ mask # {} =>
              /\ \A p \in mask : p[1] \in b.x0 .. b.x1 - 1 /\ p[2] \in b.y0 .. b.y1 - 1
              /\ \E p \in mask : p[1] = b.x0
              /\ \E p \in mask : p[1] + 1 = b.x1
              /\ b.x0 * c.n <= c.x /\ c.x <= (b.x1 - 1) * c.n
              /\ b.y0 * c.n <= c.y /\ c.y <= (b.y1 - 1) * c.n
              /\ box = [b EXCEPT !.x1 = @ - 1, !.y1 = @ - 1]
        /\ mask = {} => Area(b) = 0 /\ box.x0 > box.x1

LEMMA BoxUpdated ==
    ASSUME NEW w, NEW x, NEW y, NEW u, NEW v, NEW b, b = [x0 |-> w, y0 |-> x, x1 |-> u, y1 |-> v],
           NEW s, NEW t, NEW c, c = [b EXCEPT !.x1 = s, !.y1 = t]
    PROVE  c = [x0 |-> w, y0 |-> x, x1 |-> s, y1 |-> t]
OBVIOUS

LEMMA MasksAreMeasured ==
    ASSUME NEW mask \in SUBSET Pixels
    PROVE  Measured(mask, MaskBox(mask))
<1>0. Width \in Nat \ {0} /\ Height \in Nat \ {0} BY SizesAssumption
<1>1. mask \in SUBSET Pixels OBVIOUS
<1>c. PICK coords : coords = sam3_mask_coords(mask) OBVIOUS
<1>2. /\ ToSet(coords) = mask
      /\ \A m, n \in 1 .. Len(coords) : m < n => Before(coords[m], coords[n])
      BY <1>c, CoordsAreForeground
<1>3. Len(coords) = sam3_mask_area(mask) BY <1>c, CoordsCounted
<1>4. \A m, n \in 1 .. Len(coords) : m < n =>
              \/ coords[m][2] < coords[n][2]
              \/ coords[m][2] = coords[n][2] /\ coords[m][1] < coords[n][1]
      BY <1>2 DEF Before
<1>5. ASSUME NEW x \in -1 .. Width, NEW y \in -1 .. Height
      PROVE  sam3_mask_at(mask, x, y) = (<<x, y>> \in mask)
  <2>1. <<x, y>> \in mask => x \in 0 .. Width - 1 /\ y \in 0 .. Height - 1
        BY DEF Pixels
  <2>2. <<x, y>> \in mask => x >= 0 /\ y >= 0 /\ x < Width /\ y < Height BY <1>0, <2>1
  <2> QED BY <2>2 DEF sam3_mask_at
<1>m. PICK box : box = MaskBox(mask) OBVIOUS
<1>b. PICK b : b = sam3_mask_bbox(mask) OBVIOUS
<1>s. PICK c : c = sam3_mask_centroid(mask) OBVIOUS
<1>6. ASSUME mask # {}
      PROVE  /\ \A p \in mask : p[1] \in b.x0 .. b.x1 - 1 /\ p[2] \in b.y0 .. b.y1 - 1
             /\ \E p \in mask : p[1] = b.x0
             /\ \E p \in mask : p[1] + 1 = b.x1
             /\ b.x0 * c.n <= c.x /\ c.x <= (b.x1 - 1) * c.n
             /\ b.y0 * c.n <= c.y /\ c.y <= (b.y1 - 1) * c.n
             /\ box = [b EXCEPT !.x1 = @ - 1, !.y1 = @ - 1]
  <2>1. Bounds(box, mask) BY <1>6, <1>m, MaskBoxBounds
  <2>2. box = [x0 |-> box.x0, y0 |-> box.y0, x1 |-> box.x1, y1 |-> box.y1]
        BY <1>6, <1>m DEF MaskBox
  <2>3. b = [x0 |-> box.x0, y0 |-> box.y0, x1 |-> box.x1 + 1, y1 |-> box.y1 + 1]
    <3>1. b = [box EXCEPT !.x1 = @ + 1, !.y1 = @ + 1] BY <1>6, <1>m, <1>b DEF sam3_mask_bbox
    <3> QED BY <2>2, <3>1
  <2>4. box.x0 \in Int /\ box.x1 \in Int /\ box.y0 \in Int /\ box.y1 \in Int
        BY <1>0, <2>1 DEF Bounds
  <2>5. /\ b.x0 = box.x0 /\ b.y0 = box.y0 /\ b.x1 - 1 = box.x1 /\ b.y1 - 1 = box.y1
        /\ b.x1 = box.x1 + 1
        BY <2>3, <2>4
  <2>6. /\ box.x0 * c.n <= c.x /\ c.x <= box.x1 * c.n
        /\ box.y0 * c.n <= c.y /\ c.y <= box.y1 * c.n
        BY <1>6, <1>s, <2>1, CentroidInBox
  <2>7. ASSUME NEW p \in mask PROVE p[1] \in box.x0 .. box.x1 /\ p[2] \in box.y0 .. box.y1
    <3>1. p[1] \in Int /\ p[2] \in Int BY <1>0 DEF Pixels
    <3> QED BY <2>1, <2>4, <3>1 DEF Bounds
  <2>8. \E p \in mask : p[1] = b.x0 BY <2>1, <2>5 DEF Bounds
  <2>9. \E p \in mask : p[1] + 1 = b.x1
    <3>1. PICK p \in mask : p[1] = box.x1 BY <2>1 DEF Bounds
    <3> QED BY <2>5, <3>1
  <2>10. box = [b EXCEPT !.x1 = @ - 1, !.y1 = @ - 1]
    <3>1. PICK d : d = [b EXCEPT !.x1 = @ - 1, !.y1 = @ - 1] OBVIOUS
    <3>2. d = [x0 |-> box.x0, y0 |-> box.y0, x1 |-> b.x1 - 1, y1 |-> b.y1 - 1]
          BY <2>3, <3>1, BoxUpdated
    <3> QED BY <2>2, <2>5, <3>1, <3>2
  <2> QED BY <2>5, <2>6, <2>7, <2>8, <2>9, <2>10
<1>7. ASSUME mask = {} PROVE Area(b) = 0 /\ box.x0 > box.x1
  <2>1. b = [x0 |-> 0, y0 |-> 0, x1 |-> 0, y1 |-> 0] BY <1>7, <1>b DEF sam3_mask_bbox
  <2>2. box.x0 = Width /\ box.x1 = 0 BY <1>7, <1>m DEF MaskBox
  <2>3. b.x0 = 0 /\ b.y0 = 0 /\ b.x1 = 0 /\ b.y1 = 0 BY <2>1
  <2>4. (0 - 0) * (0 - 0) = 0 OBVIOUS
  <2> QED BY <1>0, <2>2, <2>3, <2>4 DEF Area
<1> QED BY <1>2, <1>3, <1>4, <1>5, <1>6, <1>7, <1>c, <1>m, <1>b, <1>s DEF Measured

LEMMA MasksMeasuredHolds == IInv /\ MasksInv => MasksMeasured
<1> SUFFICES ASSUME IInv, MasksInv, at = "done", NEW i \in 1 .. Len(result),
                    "mask" \in DOMAIN result[i]
             PROVE  Measured(result[i].mask, result[i].box)
    BY DEF MasksMeasured, Measured
<1>1. CASE request \in PvsRequests
  <2>1. result[i].mask \in Masks /\ result[i].box = MaskBox(result[i].mask)
        BY <1>1 DEF MasksInv
  <2>2. result[i].mask \in SUBSET Pixels BY <2>1, RequestsAssumption
  <2> QED BY <2>1, <2>2, MasksAreMeasured
<1>2. CASE request \notin PvsRequests
  <2>1. NmsInv /\ Numbered BY <1>2 DEF IInv
  <2>2. Len(keep) \in Nat /\ Len(result) = Len(keep)
    <3>1. Len(keep) \in Nat BY <2>1 DEF NmsInv, TypeInv
    <3> QED BY <2>1, <3>1 DEF Numbered
  <2>3. result[i] = [score |-> dets[keep[i]].score, box |-> dets[keep[i]].box, instance_id |-> i]
        BY <2>1, <2>2 DEF Numbered
  <2>4. DOMAIN result[i] = {"score", "box", "instance_id"} BY <2>3
  <2> QED BY <2>4
<1> QED BY <1>1, <1>2

(* For every mask an engine can give back: its coordinates are its           *)
(* foreground row by row and as many as its area, its bounding box is the    *)
(* least that holds them, its centroid lies in it, and the detection's own   *)
(* box is that box, or inside out.                                           *)
THEOREM MasksMeasureTrue == Spec => []MasksMeasured
BY InitIInv, NextIInv, InitMasksInv, NextMasksInv, MasksMeasuredHolds, PTL DEF Spec
=============================================================================
