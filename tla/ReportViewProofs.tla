-------------------------- MODULE ReportViewProofs --------------------------
(***************************************************************************)
(* Proofs about the report a run sends: the subject and the body of the    *)
(* mail agree, the two copies of a row agree with what fires, and what     *)
(* fires was confirmed.  They hold for any hosts, in any order, any        *)
(* fields, mounts and services, and any N above 1.                         *)
(***************************************************************************)
EXTENDS ReportView, NotifyRulesProofs, WellFoundedInduction

-----------------------------------------------------------------------------
(* The key of a row. *)

(* A nonempty set of positions of a sequence has a last one. *)
LEMMA LastPosition ==
  ASSUME NEW n \in Nat, NEW S \in SUBSET (1 .. n), S # {}
  PROVE  Max(S) \in S
<1> DEFINE T == {n - i : i \in S}
<1>1. \A i \in S : i \in Int /\ n - i \in Nat
  OBVIOUS
<1>2. T \subseteq Nat /\ T # {}
  BY <1>1
<1>3. \A t \in T : t \in Nat
  BY <1>2
<1>4. IsWellFoundedOn(OpToRel(<, Nat), Nat)
  BY NatLessThanWellFounded
<1>5. PICK t \in T : \A u \in T : ~(<<u, t>> \in OpToRel(<, Nat))
  BY <1>2, <1>4, WFMin
<1>6. \A x \in Nat, y \in Nat : x < y => <<x, y>> \in OpToRel(<, Nat)
  BY DEF OpToRel
<1>7. \A u \in T : ~(u < t)
  BY <1>3, <1>5, <1>6
<1>8. PICK m \in S : t = n - m
  OBVIOUS
<1>9. \A i \in S : ~(n - i < n - m)
  BY <1>7, <1>8
<1>10. \A i \in S : m >= i
  BY <1>1, <1>9
<1>11. QED
  BY <1>10 DEF Max

(* ExtractAlerts names a host that has a row of the field, or none.  What  *)
(* it makes of a row is a key of the pending map.                          *)
LEMMA KeyOfRow ==
  ASSUME NEW view, NEW row \in HostRows \cup Probes
  PROVE  FieldOf(row) \in Fields /\ ItemOf(row, view) \in Items
<1>1. FieldOf(row) \in Fields
  BY ReportAssumption DEF FieldOf, Fields, HostRows, Range
<1> DEFINE places == {i \in DOMAIN HostOrder : FieldOf(row) \in DOMAIN view[HostOrder[i]]}
<1>2. HostByField(FieldOf(row), view) \in Hosts \cup {NoHost}
  <2>1. CASE places = {}
    BY <2>1 DEF HostByField
  <2>2. CASE places # {}
    <3>1. Len(HostOrder) \in Nat /\ places \in SUBSET (1 .. Len(HostOrder))
      BY ReportAssumption
    <3>2. Max(places) \in places
      BY <2>2, <3>1, LastPosition
    <3>3. HostOrder[Max(places)] \in Hosts
      BY <3>2, ReportAssumption
    <3>4. QED
      BY <2>2, <3>3 DEF HostByField
  <2>3. QED
    BY <2>1, <2>2
<1>3. QED
  BY <1>1, <1>2, ReportAssumption DEF ItemOf

(* A row of a host is no service row, whatever it is called. *)
LEMMA FieldOfHostRow ==
  ASSUME NEW h \in Hosts, NEW f \in HostFields \cup MountFields
  PROVE  <<h, f>> \in HostRows /\ <<h, f>> \notin Probes /\ FieldOf(<<h, f>>) = f
BY ReportAssumption DEF FieldOf, HostRows

(* Keys depend only on which rows each host has, and a demotion keeps      *)
(* them all: the items are those it was not asked to demote.               *)
LEMMA DemotionKeepsKeys ==
  ASSUME NEW view, NEW keys
  PROVE  \A row : ItemOf(row, DemotedView(view, keys)) = ItemOf(row, view)
<1>1. \A i \in DOMAIN HostOrder :
        DOMAIN DemotedView(view, keys)[HostOrder[i]] = DOMAIN view[HostOrder[i]]
  BY DEF DemotedView, Hosts, Range
<1>2. \A f : {i \in DOMAIN HostOrder : f \in DOMAIN DemotedView(view, keys)[HostOrder[i]]}
               = {i \in DOMAIN HostOrder : f \in DOMAIN view[HostOrder[i]]}
  BY <1>1
<1>3. \A f : HostByField(f, DemotedView(view, keys)) = HostByField(f, view)
  BY <1>2 DEF HostByField
<1>4. QED
  BY <1>3 DEF ItemOf

LEMMA DemotionLeavesTheRest ==
  ASSUME NEW view, NEW rows, NEW keys
  PROVE  ExtractAlerts(DemotedView(view, keys), DemotedRows(rows, view, keys))
           = ExtractAlerts(view, rows) \ keys
<1> DEFINE left == DemotedRows(rows, view, keys)
<1>1. WarnRows(left) = {r \in WarnRows(rows) : ItemOf(r, view) \notin keys}
  BY DEF WarnRows, DemotedRows, Warn, Notice
<1>2. ExtractAlerts(DemotedView(view, keys), left) = {ItemOf(r, view) : r \in WarnRows(left)}
  BY DemotionKeepsKeys DEF ExtractAlerts
<1>3. QED
  BY <1>1, <1>2 DEF ExtractAlerts

-----------------------------------------------------------------------------
(* The inductive invariant. *)

ReportTyped ==
  /\ phase \in {"idle", "collected"}
  /\ pending \in PendingMap
  /\ seenField \in [Fields -> 0 .. ConsecutiveRuns]
  /\ DOMAIN all \subseteq HostRows \cup Probes
  /\ \A h \in Hosts : DOMAIN hostView[h] \subseteq HostFields \cup MountFields

(* Between the rules and the demotion the two copies of a row are equal.   *)
CopiesAgree ==
  phase = "collected" =>
    \A h \in Hosts : \A f \in DOMAIN hostView[h] :
      /\ hostView[h][f] # Notice
      /\ <<h, f>> \in DOMAIN all
      /\ all[<<h, f>>] = hostView[h][f]

(* A counter is at most the number of runs its field has been Warn in; in  *)
(* the run that finds the field again, less than that.                     *)
CountsAreOfField ==
  /\ phase = "idle" =>
       \A i \in DOMAIN pending : pending[i].count <= seenField[i[2]]
  /\ phase = "collected" =>
       \A r \in WarnRows(all) :
         /\ seenField[FieldOf(r)] >= 1
         /\ \A i \in DOMAIN pending :
              i[2] = FieldOf(r) => pending[i].count < seenField[FieldOf(r)]

SubjectInv ==
  /\ summary.warn = Cardinality(WarnRows(all))
  /\ phase = "idle" => ExtractAlerts(hostView, all) = fired

ReportInv ==
  /\ ReportTyped
  /\ SubjectInv
  /\ CopiesAgree
  /\ HostTableShowsFired
  /\ CountsAreOfField
  /\ FieldWasConfirmed

-----------------------------------------------------------------------------
(* Initially. *)

LEMMA SummaryCountsWarn ==
  ASSUME NEW rows
  PROVE  Summarize(rows).warn = Cardinality(WarnRows(rows))
BY DEF Summarize, WarnRows

LEMMA ReportInit == Init => ReportInv
<1> SUFFICES ASSUME Init PROVE ReportInv
  OBVIOUS
<1> USE DEF Init
<1>1. WarnRows(all) = {}
  BY DEF WarnRows
<1>2. pending \in PendingMap /\ DOMAIN pending = {}
  <2>1. ColdStart.pending = [i \in {} |-> 0]
    BY DEF ColdStart
  <2>2. [i \in {} |-> 0] \in [{} -> PendingItem]
    OBVIOUS
  <2>3. QED
    BY <2>1, <2>2, PendingMapIntro
<1>3. seenField \in [Fields -> 0 .. ConsecutiveRuns]
  BY RulesAssumption
<1>4. ReportTyped
  BY <1>2, <1>3 DEF ReportTyped
<1>5. SubjectInv
  BY <1>1, SummaryCountsWarn DEF SubjectInv, ExtractAlerts
<1>6. CopiesAgree /\ HostTableShowsFired /\ FieldWasConfirmed
  BY DEF CopiesAgree, HostTableShowsFired, FieldWasConfirmed
<1>7. CountsAreOfField
  BY <1>1, <1>2 DEF CountsAreOfField
<1>8. QED
  BY <1>4, <1>5, <1>6, <1>7 DEF ReportInv

-----------------------------------------------------------------------------
(* A run collects. *)

LEMMA RunInv ==
  ASSUME ReportInv, NEW metrics \in [Hosts -> Metrics], NEW probes \in [Probes -> UnitStates],
         Run(metrics, probes)
  PROVE  ReportInv'
<1> DEFINE view == [h \in Hosts |-> CheckHost(metrics[h])]
           rows == AllRows(view, probes)
<1>1. /\ phase = "idle" /\ phase' = "collected" /\ hostView' = view /\ all' = rows
      /\ summary' = Summarize(rows) /\ fired' = {} /\ pending' = pending
  BY DEF Run
<1>2. \A h \in Hosts :
        /\ view[h] = CheckHost(metrics[h])
        /\ DOMAIN view[h] \subseteq HostFields \cup MountFields
        /\ \A f \in DOMAIN view[h] : view[h][f] # Notice
  BY DEF CheckHost, OK, Warn, Notice
<1>3. DOMAIN rows = {hf \in HostRows : hf[2] \in DOMAIN view[hf[1]]} \cup Probes
  BY DEF AllRows
<1>4. \A h \in Hosts : \A f \in DOMAIN view[h] :
        <<h, f>> \in DOMAIN rows /\ rows[<<h, f>>] = view[h][f]
  <2> SUFFICES ASSUME NEW h \in Hosts, NEW f \in DOMAIN view[h]
               PROVE  <<h, f>> \in DOMAIN rows /\ rows[<<h, f>>] = view[h][f]
    OBVIOUS
  <2>1. <<h, f>> \in HostRows /\ <<h, f>> \notin Probes
    BY <1>2, FieldOfHostRow
  <2>2. <<h, f>> \in DOMAIN rows
    BY <1>3, <2>1
  <2>3. QED
    BY <2>1, <2>2 DEF AllRows
<1>5. WarnRows(rows) \subseteq HostRows \cup Probes
  BY <1>3 DEF WarnRows
<1>6. \A r \in WarnRows(rows) : FieldOf(r) \in Fields
  BY <1>5, KeyOfRow
<1>7. seenField' = [f \in Fields |->
          IF \E r \in WarnRows(rows) : FieldOf(r) = f
          THEN Bump(seenField[f], ConsecutiveRuns) ELSE 0]
  BY DEF Run
<1>8. seenField' \in [Fields -> 0 .. ConsecutiveRuns]
  <2>1. \A f \in Fields : Bump(seenField[f], ConsecutiveRuns) \in 0 .. ConsecutiveRuns
    BY RulesAssumption, BumpType DEF ReportInv, ReportTyped
  <2>2. 0 \in 0 .. ConsecutiveRuns
    BY RulesAssumption
  <2>3. QED
    BY <1>7, <2>1, <2>2
<1>9. ReportTyped'
  BY <1>1, <1>2, <1>3, <1>8 DEF ReportInv, ReportTyped
<1>10. SubjectInv'
  BY <1>1, SummaryCountsWarn DEF SubjectInv
<1>11. CopiesAgree'
  BY <1>1, <1>2, <1>4 DEF CopiesAgree
<1>12. HostTableShowsFired' /\ FieldWasConfirmed'
  BY <1>1, <1>2 DEF HostTableShowsFired, FieldWasConfirmed
<1>13. CountsAreOfField'
  <2> SUFFICES ASSUME NEW r \in WarnRows(rows)
               PROVE  /\ seenField'[FieldOf(r)] >= 1
                      /\ \A i \in DOMAIN pending :
                           i[2] = FieldOf(r) => pending[i].count < seenField'[FieldOf(r)]
    BY <1>1 DEF CountsAreOfField
  <2>1. FieldOf(r) \in Fields /\ seenField[FieldOf(r)] \in 0 .. ConsecutiveRuns
    BY <1>6 DEF ReportInv, ReportTyped
  <2>2. seenField'[FieldOf(r)] = Bump(seenField[FieldOf(r)], ConsecutiveRuns)
    BY <1>7, <2>1
  <2>3. seenField'[FieldOf(r)] >= 1
    BY <2>1, <2>2, RulesAssumption DEF Bump
  <2>4. ASSUME NEW i \in DOMAIN pending, i[2] = FieldOf(r)
        PROVE  pending[i].count < seenField'[FieldOf(r)]
    <3>1. pending[i].count \in 1 .. (ConsecutiveRuns - 1)
      BY PendingMapElements DEF ReportInv, ReportTyped
    <3>2. pending[i].count <= seenField[FieldOf(r)]
      BY <1>1, <2>4 DEF ReportInv, CountsAreOfField
    <3>3. QED
      BY <2>1, <2>2, <3>1, <3>2, RulesAssumption DEF Bump
  <2>5. QED
    BY <2>3, <2>4
<1>14. QED
  BY <1>9, <1>10, <1>11, <1>12, <1>13 DEF ReportInv

-----------------------------------------------------------------------------
(* The notification prepares its mail. *)

LEMMA PrepareInv ==
  ASSUME ReportInv, Prepare
  PROVE  ReportInv'
<1> DEFINE raw == ExtractAlerts(hostView, all)
           keys == raw \ Filtered(raw, pending)
           rows == DemotedRows(all, hostView, keys)
<1>1. /\ phase = "collected" /\ phase' = "idle" /\ fired' = Filtered(raw, pending)
      /\ pending' = NextPending(raw, pending) /\ seenField' = seenField
  BY DEF Prepare
<1>2. keys = {} => hostView' = hostView /\ all' = all /\ summary' = summary
  BY DEF Prepare
<1>3. keys # {} => /\ hostView' = DemotedView(hostView, keys) /\ all' = rows
                   /\ summary' = recomputeSummary(rows)
  BY DEF Prepare
<1>4. pending \in PendingMap /\ DOMAIN all \subseteq HostRows \cup Probes
  BY DEF ReportInv, ReportTyped
<1>5. ASSUME NEW i \in raw
      PROVE  /\ i \in Items
             /\ \E r \in WarnRows(all) : i = ItemOf(r, hostView) /\ FieldOf(r) = i[2]
  <2>1. PICK r \in WarnRows(all) : i = ItemOf(r, hostView)
    BY <1>5 DEF ExtractAlerts
  <2>2. r \in HostRows \cup Probes
    BY <1>4 DEF WarnRows
  <2>3. QED
    BY <2>1, <2>2, KeyOfRow DEF ItemOf
<1>6. raw \subseteq Items
  BY <1>5
<1>7. Filtered(raw, pending) \subseteq raw /\ pending' \in PendingMap
  BY <1>1, <1>4, <1>6, NextPendingType
<1>8. ReportTyped'
  <2>1. DOMAIN rows = DOMAIN all
    BY DEF DemotedRows
  <2>2. \A h \in Hosts : DOMAIN DemotedView(hostView, keys)[h] = DOMAIN hostView[h]
    BY DEF DemotedView
  <2>3. DOMAIN all' \subseteq HostRows \cup Probes
    BY <1>2, <1>3, <1>4, <2>1
  <2>4. \A h \in Hosts : DOMAIN hostView'[h] \subseteq HostFields \cup MountFields
    BY <1>2, <1>3, <2>2 DEF ReportInv, ReportTyped
  <2>5. QED
    BY <1>1, <1>7, <2>3, <2>4 DEF ReportInv, ReportTyped
<1>9. SubjectInv'
  <2>1. CASE keys = {}
    <3>1. raw = Filtered(raw, pending)
      BY <1>7, <2>1
    <3>2. QED
      BY <1>1, <1>2, <2>1, <3>1 DEF ReportInv, SubjectInv
  <2>2. CASE keys # {}
    <3>1. summary'.warn = Cardinality(WarnRows(all'))
      BY <1>3, <2>2, SummaryCountsWarn DEF recomputeSummary
    <3>2. ExtractAlerts(hostView', all') = raw \ keys
      BY <1>3, <2>2, DemotionLeavesTheRest
    <3>3. raw \ keys = fired'
      BY <1>1, <1>7
    <3>4. QED
      BY <3>1, <3>2, <3>3 DEF SubjectInv
  <2>3. QED
    BY <2>1, <2>2
<1>10. CopiesAgree'
  BY <1>1 DEF CopiesAgree
<1>11. HostTableShowsFired'
  <2>1. CASE keys = {}
    BY <1>2, <2>1 DEF ReportInv, HostTableShowsFired
  <2>2. CASE keys # {}
    <3> SUFFICES ASSUME NEW h \in Hosts, NEW f \in DOMAIN hostView'[h],
                        hostView'[h][f] = Notice
                 PROVE  all'[<<h, f>>] = Notice
      BY DEF HostTableShowsFired
    <3>1. f \in DOMAIN hostView[h] /\ f \in HostFields \cup MountFields
      BY <1>3, <2>2 DEF DemotedView, ReportInv, ReportTyped
    <3>2. hostView[h][f] = Warn /\ <<h, f>> \in keys
      <4>1. hostView[h][f] # Notice
        BY <1>1, <3>1 DEF ReportInv, CopiesAgree
      <4>2. hostView'[h][f] = IF hostView[h][f] = Warn /\ <<h, f>> \in keys
                              THEN Notice ELSE hostView[h][f]
        BY <1>3, <2>2, <3>1 DEF DemotedView
      <4>3. QED
        BY <4>1, <4>2
    <3>3. <<h, f>> \in DOMAIN all /\ all[<<h, f>>] = Warn
      BY <1>1, <3>1, <3>2 DEF ReportInv, CopiesAgree
    <3>4. FieldOf(<<h, f>>) = f
      BY <3>1, FieldOfHostRow
    <3>5. PICK r \in WarnRows(all) : <<h, f>> = ItemOf(r, hostView) /\ FieldOf(r) = f
      BY <1>5, <3>2
    <3>6. h = HostByField(f, hostView)
      BY <3>5 DEF ItemOf
    <3>7. ItemOf(<<h, f>>, hostView) \in keys
      BY <3>2, <3>4, <3>6 DEF ItemOf
    <3>8. QED
      BY <1>3, <2>2, <3>3, <3>7 DEF DemotedRows
  <2>3. QED
    BY <2>1, <2>2
<1>12. ASSUME NEW i \in raw
       PROVE  NewCount(i, pending) \in Nat /\ NewCount(i, pending) <= seenField[i[2]]
  <2>1. PICK r \in WarnRows(all) : FieldOf(r) = i[2]
    BY <1>5
  <2>2. seenField[i[2]] \in 0 .. ConsecutiveRuns
    BY <1>4, <2>1, KeyOfRow DEF WarnRows, ReportInv, ReportTyped
  <2>3. seenField[i[2]] >= 1
    BY <1>1, <2>1 DEF ReportInv, CountsAreOfField
  <2>4. CASE Fresh(i, pending)
    <3>1. i \in DOMAIN pending
      BY <2>4 DEF Fresh
    <3>2. pending[i].count < seenField[i[2]]
      BY <1>1, <2>1, <3>1 DEF ReportInv, CountsAreOfField
    <3>3. pending[i].count \in 1 .. (ConsecutiveRuns - 1)
      BY <1>4, <3>1, PendingMapElements
    <3>4. QED
      BY <2>2, <2>4, <3>2, <3>3, RulesAssumption DEF NewCount
  <2>5. CASE ~Fresh(i, pending)
    BY <2>3, <2>5 DEF NewCount
  <2>6. QED
    BY <2>4, <2>5
<1>13. CountsAreOfField'
  <2>1. \A i \in DOMAIN pending' : i \in raw /\ pending'[i].count = NewCount(i, pending)
    BY <1>1 DEF NextPending
  <2>2. QED
    BY <1>1, <1>12, <2>1 DEF CountsAreOfField
<1>14. FieldWasConfirmed'
  <2> SUFFICES ASSUME NEW i \in Filtered(raw, pending)
               PROVE  seenField[i[2]] >= ConsecutiveRuns
    BY <1>1 DEF FieldWasConfirmed
  <2>1. i \in raw /\ NewCount(i, pending) >= ConsecutiveRuns
    BY DEF Filtered
  <2>2. seenField[i[2]] \in Int
    BY <1>4, <1>5, <2>1, KeyOfRow DEF WarnRows, ReportInv, ReportTyped
  <2>3. QED
    BY <1>12, <2>1, <2>2, RulesAssumption
<1>15. QED
  BY <1>8, <1>9, <1>10, <1>11, <1>13, <1>14 DEF ReportInv

-----------------------------------------------------------------------------
THEOREM ReportInvariant == Spec => []ReportInv
<1>1. ReportInv /\ UNCHANGED vars => ReportInv'
  BY DEF vars, ReportInv, ReportTyped, SubjectInv, CopiesAgree, HostTableShowsFired,
         CountsAreOfField, FieldWasConfirmed
<1>2. ReportInv /\ [Next]_vars => ReportInv'
  BY <1>1, RunInv, PrepareInv DEF Next
<1>3. QED
  BY <1>2, ReportInit, PTL DEF Spec

(* The subject of the mail counts the rows its body lists, and the rows    *)
(* still Warn are exactly the items that fire (recomputeSummary runs after *)
(* the last demotion).                                                     *)
THEOREM SubjectAlwaysMatches == Spec => []SubjectMatchesBody
<1>1. ReportInv => SubjectMatchesBody
  BY DEF ReportInv, SubjectInv, SubjectMatchesBody
<1>2. QED
  BY <1>1, ReportInvariant, PTL

(* A row toned down in the table of its host is toned down in AllChecks,   *)
(* although demotePending matches the two by different hosts.              *)
THEOREM TablesAgreeOnNotices == Spec => []HostTableShowsFired
<1>1. ReportInv => HostTableShowsFired
  BY DEF ReportInv
<1>2. QED
  BY <1>1, ReportInvariant, PTL

(* Whatever fires has been Warn on some host in each of the last N runs.   *)
THEOREM FieldsAreConfirmed == Spec => []FieldWasConfirmed
<1>1. ReportInv => FieldWasConfirmed
  BY DEF ReportInv
<1>2. QED
  BY <1>1, ReportInvariant, PTL
=============================================================================
