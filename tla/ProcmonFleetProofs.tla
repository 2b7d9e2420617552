-------------------------- MODULE ProcmonFleetProofs --------------------------
(***************************************************************************)
(* What the procmon pages leave on the hosts and show of them, for any     *)
(* site, any number of pages and any failures.  The inductive invariant    *)
(* follows a remote command, as long as no other meets it, through its     *)
(* steps: at each it says what the files of the host are.                  *)
(*                                                                         *)
(* The numbers of a report are bounded by the books of a host: a ledger    *)
(* that says under which process number each unit of processor time was    *)
(* used, and when each record was made.                                    *)
(***************************************************************************)
EXTENDS ProcmonFleet, SequenceTheorems, FiniteSetTheorems, WellFoundedInduction, TLAPS

Ops == {"none", "deploy", "uninstall", "pull"}
Idle == {"ended", "failed", "cancelled"}
Underway == {"next", "copying", "copied", "remote"}
Contents == {"none", "partial", "whole"}
Copies == {"none", "whole", "partial", "lost"}
Scripts == [op : {"deploy", "uninstall"}, no : Nat, step : 1..6, copy : Copies]

TypeInv ==
  /\ site \in DOMAIN Sites
  /\ page \in [op : Ops, no : Nat, left : Seq(Hosts), step : Idle \cup Underway]
  /\ opened \in Nat
  /\ shown \in [Hosts -> {"", "red", "green"}]
  /\ tmp \in [Hosts -> Contents] /\ bin \in [Hosts -> Contents]
  /\ cron \in [Hosts -> BOOLEAN] /\ raced \in [Hosts -> BOOLEAN]
  /\ scripts \in [Hosts -> SUBSET Scripts]

Distinct(q) == \A i, j \in 1..Len(q) : q[i] = q[j] => i = j

(* The page: its number, its hosts left, which steps go with which         *)
(* operation, and that it has shown something of the hosts behind it only. *)
PageInv ==
  /\ page.no = opened
  /\ page.op = "none" <=> opened = 0
  /\ Busy <=> page.step \in Underway
  /\ page.step \in {"copying", "copied"} => page.op = "deploy"
  /\ page.step = "remote" => page.op \in {"deploy", "uninstall"}
  /\ Distinct(page.left)
  /\ page.step \notin {"failed", "cancelled"} /\ opened > 0 =>
       \A h \in Hosts : shown[h] # "" \/ h \in ToSet(page.left)
  /\ \A h \in Hosts : shown[h] # "" => h \notin ToSet(page.left)

(* A script belongs to a page that was opened, and to its operation.       *)
OwnerInv ==
  \A h \in Hosts : \A s \in scripts[h] :
    s.no <= opened /\ (s.no = page.no => s.op = page.op)

Deploys(h) == {s \in scripts[h] : s.op = "deploy"}
Sound(h) == h \in S.unfit \/ (cron[h] => bin[h] = "whole")

Stage(h, s) ==
  \/ s.step = 1 /\ tmp[h] = "whole" /\ Sound(h)
  \/ s.step = 2 /\ s.copy = "whole"
  \/ s.step \in {3, 4} /\ bin[h] = "whole"
  \/ s.step = 5 /\ bin[h] = "whole" /\ cron[h]
  \/ s.step = 6 /\ bin[h] = "whole" /\ cron[h] /\ DOMAIN files[h] # {}

(* What a host is like as long as no two deployments met on it.            *)
HostOK(h) ==
  /\ \A s, t \in Deploys(h) : s = t
  /\ \A s \in Deploys(h) : Stage(h, s)
  /\ Deploys(h) = {} => Sound(h)
  /\ Busy /\ h = h0 /\ page.step \in {"copying", "copied"} => Deploys(h) = {} /\ tmp[h] # "none"
  /\ Busy /\ h = h0 /\ page.step = "copied" => tmp[h] = "whole"

HostInv == \A h \in Hosts : ~raced[h] => HostOK(h)

(* What a page showed is so: no deployment goes on on a host that is done. *)
Deployed(h) == bin[h] = "whole" /\ cron[h] /\ DOMAIN files[h] # {}
HasData(h) == \E f \in DOMAIN local : f[1] = HostName[h]

ShownOK(h) ==
  /\ shown[h] = "green" /\ ~raced[h] /\ page.op = "deploy" => Deploys(h) = {} /\ Deployed(h)
  /\ shown[h] = "green" /\ page.op = "pull" => HasData(h)
  /\ shown[h] = "red" /\ page.op = "deploy" =>
       h \in S.faulty \/ h \in S.unfit \/ S.tight \/ raced[h]

ShownInv == \A h \in Hosts : ShownOK(h)

(* Where deployments met: once the command of the page has come as far as  *)
(* its install, none of the installs under way makes a part of the binary. *)
Own(h) == {s \in scripts[h] : s.no = page.no}
Reached(h, n) == page.op = "deploy" /\ (shown[h] = "green" \/ \E s \in Own(h) : s.step >= n)

MeetOK(h) ==
  /\ Own(h) # {} /\ h \in ToSet(page.left) => h = h0 /\ page.step = "remote"
  /\ (Busy /\ h = h0 /\ page.step = "copied") \/ Reached(h, 1) => tmp[h] # "partial"
  /\ Reached(h, 2) => \A t \in scripts[h] : t.copy # "partial"
  /\ Reached(h, 2) /\ h \notin S.unfit =>
       bin[h] = "whole" \/ \E t \in Deploys(h) : t.step = 2 /\ t.copy = "whole"
  /\ Reached(h, 5) /\ h \notin S.unfit => cron[h]
  /\ Reached(h, 6) => DOMAIN files[h] # {}

MeetInv == \A h \in Hosts : MeetOK(h)

(* The data: a file for every day a collector ran, none of the future.     *)
CollectOK(h, c) ==
  /\ c = [kind |-> c.kind, ts |-> c.ts, left |-> c.left, failed |-> c.failed]
  /\ DayOf(c.ts) \in DOMAIN files[h]

FileInv ==
  /\ now \in Nat
  /\ due \in [Hosts -> BOOLEAN]
  /\ files = [h \in Hosts |-> files[h]]
  /\ collects = [h \in Hosts |-> collects[h]]
  /\ pruned = [h \in Hosts |-> pruned[h]]
  /\ \A h \in Hosts : DOMAIN files[h] \subseteq 0..Today
  /\ \A h \in Hosts : pruned[h] \subseteq DOMAIN files[h]
  /\ \A h \in Hosts : \A c \in collects[h] : CollectOK(h, c)
  /\ \A f \in DOMAIN local : f = <<f[1], f[2]>>
  /\ \A f \in DOMAIN local : \E h \in Hosts : f[1] = HostName[h] /\ f[2] \in DOMAIN files[h]

IInv == TypeInv /\ PageInv /\ OwnerInv /\ HostInv /\ ShownInv /\ MeetInv /\ FileInv

-----------------------------------------------------------------------------
(* Sequences without repetition.                                           *)

LEMMA HeadAndTail ==
  ASSUME NEW X, NEW q \in Seq(X), q # <<>>
  PROVE  /\ Head(q) \in X /\ Tail(q) \in Seq(X)
         /\ ToSet(q) = {Head(q)} \cup ToSet(Tail(q))
         /\ Len(q) = 1 <=> Tail(q) = <<>>
<1>1. Len(q) \in Nat \ {0} /\ Head(q) = q[1] /\ Head(q) \in X /\ DOMAIN q = 1..Len(q)
  OBVIOUS
<1>2. Tail(q) \in Seq(X) /\ Len(Tail(q)) = Len(q) - 1 /\ DOMAIN Tail(q) = 1..Len(Tail(q))
  OBVIOUS
<1>3. \A i \in 1..Len(Tail(q)) : Tail(q)[i] = q[i + 1]
  OBVIOUS
<1>4. ToSet(q) = {q[i] : i \in 1..Len(q)} /\ ToSet(Tail(q)) = {Tail(q)[i] : i \in 1..Len(Tail(q))}
  BY <1>1, <1>2, Zenon DEF ToSet
<1>5. ASSUME NEW i \in 1..Len(q), i # 1 PROVE q[i] \in ToSet(Tail(q))
  <2>1. i - 1 \in 1..Len(Tail(q)) /\ Tail(q)[i - 1] = q[i]
    BY <1>1, <1>2, <1>3, <1>5
  <2> QED BY <1>4, <2>1
<1>6. ASSUME NEW i \in 1..Len(Tail(q)) PROVE Tail(q)[i] \in ToSet(q)
  <2>1. i + 1 \in 1..Len(q) /\ Tail(q)[i] = q[i + 1]
    BY <1>1, <1>2, <1>3
  <2> QED BY <1>4, <2>1
<1>7. ToSet(q) \subseteq {Head(q)} \cup ToSet(Tail(q))
  BY <1>1, <1>4, <1>5
<1>8. {Head(q)} \cup ToSet(Tail(q)) \subseteq ToSet(q)
  BY <1>1, <1>4, <1>6
<1>9. Len(q) = 1 <=> Tail(q) = <<>>
  <2>1. Tail(q) = <<>> <=> Len(Tail(q)) = 0
    BY <1>2, EmptySeq
  <2> QED BY <1>1, <1>2, <2>1
<1> QED BY <1>1, <1>2, <1>7, <1>8, <1>9

LEMMA TailIsDistinct ==
  ASSUME NEW X, NEW q \in Seq(X), q # <<>>, Distinct(q)
  PROVE  Distinct(Tail(q)) /\ Head(q) \notin ToSet(Tail(q))
<1>1. Len(q) \in Nat \ {0} /\ Head(q) = q[1] /\ Tail(q) \in Seq(X) /\ Len(Tail(q)) = Len(q) - 1
  OBVIOUS
<1>2. \A i \in 1..Len(Tail(q)) : i + 1 \in 1..Len(q) /\ Tail(q)[i] = q[i + 1]
  OBVIOUS
<1>3. Distinct(Tail(q))
  BY <1>1, <1>2 DEF Distinct
<1>4. ASSUME NEW i \in 1..Len(Tail(q)) PROVE Tail(q)[i] # Head(q)
  BY <1>1, <1>2 DEF Distinct
<1>5. DOMAIN Tail(q) = 1..Len(Tail(q))
  BY <1>1
<1>6. ToSet(Tail(q)) = {Tail(q)[i] : i \in 1..Len(Tail(q))}
  BY <1>5, Zenon DEF ToSet
<1> QED BY <1>3, <1>4, <1>6

-----------------------------------------------------------------------------
(* The site.                                                               *)

LEMMA SiteIsKept ==
  ASSUME [Next]_vars
  PROVE  site' = site /\ S' = S /\ Hosts' = Hosts
<1>1. site' = site
  BY DEF Next, Open, PageStep, CopyBegins, CopyEnds, Launch, ConnectionLost, Pull, PullFails,
         Cancel, Tick, ScriptStep, HostStep, Prune, CollectStep, SampleNext, CollectEnds,
         Fork, Exit, Burn, vars
<1> QED BY <1>1 DEF S, Hosts

LEMMA SiteFacts ==
  ASSUME site \in DOMAIN Sites
  PROVE  /\ S.hosts \in Seq(Hosts) /\ S.hosts # <<>> /\ Distinct(S.hosts)
         /\ Hosts \subseteq DOMAIN HostName
         /\ S.installed \in BOOLEAN /\ S.start \in Nat /\ S.dayLength \in Nat \ {0}
         /\ S.zone \in Int /\ PruneHour - S.zone \in -23..24
<1>1. /\ S.hosts \in Seq(DOMAIN HostName) /\ S.hosts # <<>>
      /\ \A i, j \in 1..Len(S.hosts) : S.hosts[i] = S.hosts[j] => i = j
      /\ S.installed \in BOOLEAN /\ S.start \in Nat /\ S.dayLength \in Nat \ {0}
      /\ S.zone \in Int /\ PruneHour - S.zone \in -23..24
  BY SitesAssumption, Zenon DEF S
<1>2. DOMAIN S.hosts = 1..Len(S.hosts)
  BY <1>1
<1>3. Hosts = {S.hosts[i] : i \in 1..Len(S.hosts)}
  BY <1>2, Zenon DEF Hosts, ToSet
<1>4. S.hosts \in Seq(Hosts) /\ Hosts \subseteq DOMAIN HostName
  BY <1>1, <1>3
<1> QED BY <1>1, <1>4 DEF Distinct

-----------------------------------------------------------------------------
(* The page goes on to its next host.                                      *)

LEMMA NextHostEffect ==
  ASSUME TypeInv, PageInv, Busy, NEW colour \in {"red", "green"}, NextHost(colour)
  PROVE  /\ page' \in [op : Ops, no : Nat, left : Seq(Hosts), step : {"ended", "next"}]
         /\ page'.op = page.op /\ page'.no = page.no /\ opened' = opened
         /\ Busy' <=> page'.step = "next"
         /\ h0 \in Hosts /\ Distinct(page'.left)
         /\ ToSet(page.left) = {h0} \cup ToSet(page'.left) /\ h0 \notin ToSet(page'.left)
         /\ shown' \in [Hosts -> {"", "red", "green"}]
         /\ shown'[h0] = colour /\ \A h \in Hosts \ {h0} : shown'[h] = shown[h]
<1>1. page.left \in Seq(Hosts) /\ page.left # <<>> /\ Distinct(page.left)
  BY DEF TypeInv, PageInv, Busy
<1>2. /\ h0 \in Hosts /\ Tail(page.left) \in Seq(Hosts)
      /\ ToSet(page.left) = {h0} \cup ToSet(Tail(page.left))
      /\ Len(page.left) = 1 <=> Tail(page.left) = <<>>
  BY <1>1, HeadAndTail DEF h0
<1>3. Distinct(Tail(page.left)) /\ h0 \notin ToSet(Tail(page.left))
  BY <1>1, TailIsDistinct, Zenon DEF h0
<1>4. page'.left = Tail(page.left) /\ page'.step = IF Len(page.left) = 1 THEN "ended" ELSE "next"
  BY DEF NextHost, TypeInv
<1>5. /\ page'.op = page.op /\ page'.no = page.no /\ opened' = opened
      /\ page' \in [op : Ops, no : Nat, left : Seq(Hosts), step : {"ended", "next"}]
  BY <1>2 DEF NextHost, TypeInv
<1>6. /\ shown' \in [Hosts -> {"", "red", "green"}]
      /\ shown'[h0] = colour /\ \A h \in Hosts \ {h0} : shown'[h] = shown[h]
  BY <1>2 DEF NextHost, TypeInv
<1>7. Busy' <=> page'.step = "next"
  BY <1>2, <1>4 DEF Busy
<1> QED BY <1>2, <1>3, <1>4, <1>5, <1>6, <1>7, Zenon

(* A remote command goes on to its next step, or ends.                     *)

LEMMA GoesOnEffect ==
  ASSUME TypeInv, NEW h \in Hosts, NEW s \in scripts[h], s.step < 6, GoesOn(h, s)
  PROVE  /\ UNCHANGED pageVars
         /\ scripts' \in [Hosts -> SUBSET Scripts]
         /\ \A g \in Hosts \ {h} : scripts'[g] = scripts[g]
         /\ \E t \in Scripts : /\ t.op = s.op /\ t.no = s.no /\ t.step = s.step + 1 /\ t.copy = s.copy
                               /\ scripts'[h] = (scripts[h] \ {s}) \cup {t}
<1>1. s \in Scripts
  BY DEF TypeInv
<1> DEFINE t == [s EXCEPT !.step = @ + 1]
<1>2. t \in Scripts /\ t.op = s.op /\ t.no = s.no /\ t.step = s.step + 1 /\ t.copy = s.copy
  BY <1>1 DEF Scripts
<1>3. scripts' = [scripts EXCEPT ![h] = (scripts[h] \ {s}) \cup {t}]
  BY DEF GoesOn
<1> HIDE DEF t
<1>4. scripts'[h] = (scripts[h] \ {s}) \cup {t} /\ \A g \in Hosts \ {h} : scripts'[g] = scripts[g]
  BY <1>3 DEF TypeInv
<1>5. scripts' \in [Hosts -> SUBSET Scripts]
  BY <1>2, <1>3 DEF TypeInv
<1> QED BY <1>2, <1>4, <1>5 DEF GoesOn

LEMMA ExitsEffect ==
  ASSUME TypeInv, NEW h \in Hosts, NEW s \in scripts[h], NEW colour, Exits(h, s, colour)
  PROVE  /\ scripts' \in [Hosts -> SUBSET Scripts]
         /\ scripts'[h] = scripts[h] \ {s} /\ \A g \in Hosts \ {h} : scripts'[g] = scripts[g]
         /\ \/ Mine(s) /\ h = h0 /\ NextHost(colour)
            \/ ~(Mine(s) /\ h = h0) /\ UNCHANGED pageVars
BY DEF TypeInv, Exits

(* A collector opens the file of its day.                                  *)
LEMMA CollectsStart ==
  ASSUME NEW hs, NEW kind, NEW ts, StartCollects(hs, kind, ts)
  PROVE  /\ files' = [g \in Hosts |-> files'[g]] /\ collects' = [g \in Hosts |-> collects'[g]]
         /\ \A g \in Hosts :
              DOMAIN files'[g] = DOMAIN files[g] \cup (IF g \in hs THEN {DayOf(ts)} ELSE {})
         /\ \A g \in Hosts : \A c \in collects'[g] :
              \/ c \in collects[g]
              \/ g \in hs /\ c = [kind |-> kind, ts |-> ts, left |-> Live(g), failed |-> FALSE]
<1>1. files' = [g \in Hosts |-> IF g \in hs THEN WithDay(files[g], DayOf(ts)) ELSE files[g]]
  BY Zenon DEF StartCollects
<1>2. \A file, day : DOMAIN WithDay(file, day) = DOMAIN file \cup {day}
  BY DEF WithDay
<1>3. \A g \in Hosts : files'[g] = IF g \in hs THEN WithDay(files[g], DayOf(ts)) ELSE files[g]
  BY <1>1
<1>4. files' = [g \in Hosts |-> files'[g]]
  BY <1>1
<1>5. collects' = [h \in Hosts |->
           collects[h] \cup IF h \in hs THEN {[kind |-> kind, ts |-> ts, left |-> Live(h), failed |-> FALSE]} ELSE {}]
  BY Zenon DEF StartCollects
<1>6. collects' = [g \in Hosts |-> collects'[g]]
  BY <1>5
<1>7. \A g \in Hosts : \A c \in collects'[g] :
        \/ c \in collects[g]
        \/ g \in hs /\ c = [kind |-> kind, ts |-> ts, left |-> Live(g), failed |-> FALSE]
  BY <1>5
<1> QED BY <1>2, <1>3, <1>4, <1>6, <1>7

(* An install that takes over is the only one whose copy may be whole.     *)
SameCommand(v, t) == v.op = t.op /\ v.no = t.no /\ v.step = t.step

LEMMA TakesOverEffect ==
  ASSUME TypeInv, NEW h \in Hosts, NEW s \in scripts[h], TakesOver(h, s)
  PROVE  /\ UNCHANGED pageVars
         /\ scripts' \in [Hosts -> SUBSET Scripts]
         /\ \A g \in Hosts \ {h} : scripts'[g] = scripts[g]
         /\ \E u \in scripts'[h] :
              /\ u.op = s.op /\ u.no = s.no /\ u.step = 2 /\ u.copy = tmp[h]
              /\ \A v \in scripts'[h] \ {u} :
                   v.copy \in {"none", "lost"} /\ \E t \in scripts[h] \ {s} : SameCommand(v, t)
<1> DEFINE Loses(t) == [t EXCEPT !.copy = IF @ = "none" THEN @ ELSE "lost"]
           u == [s EXCEPT !.step = 2, !.copy = tmp[h]]
<1>1. /\ \A t \in scripts[h] : t \in Scripts
      /\ tmp[h] \in Copies
  BY DEF TypeInv, Contents, Copies
<1>2. /\ scripts'[h] = {Loses(t) : t \in scripts[h] \ {s}} \cup {u}
      /\ \A g \in Hosts \ {h} : scripts'[g] = scripts[g]
      /\ scripts' = [g \in Hosts |-> scripts'[g]]
  BY DEF TakesOver, TypeInv
<1>3. ASSUME NEW t \in Scripts
      PROVE  Loses(t) \in Scripts /\ SameCommand(Loses(t), t) /\ Loses(t).copy \in {"none", "lost"}
  BY <1>3 DEF Scripts, Copies, SameCommand
<1>4. u \in Scripts /\ u.op = s.op /\ u.no = s.no /\ u.step = 2 /\ u.copy = tmp[h]
  <2>1. s \in Scripts /\ 2 \in 1..6
    BY <1>1
  <2>2. [s EXCEPT !.step = 2] \in Scripts
    BY <2>1 DEF Scripts
  <2>3. u = [[s EXCEPT !.step = 2] EXCEPT !.copy = tmp[h]]
    BY <2>1 DEF Scripts
  <2> QED BY <1>1, <2>1, <2>2, <2>3 DEF Scripts
<1> HIDE DEF Loses, u
<1>5. scripts'[h] \subseteq Scripts
  BY <1>1, <1>2, <1>3, <1>4
<1>6. scripts' \in [Hosts -> SUBSET Scripts]
  <2>1. \A g \in Hosts : scripts'[g] \in SUBSET Scripts
    <3>1. scripts'[h] \in SUBSET Scripts
      BY <1>5
    <3> QED BY <1>2, <3>1 DEF TypeInv
  <2> QED BY <1>2, <2>1, Zenon
<1>7. \A v \in scripts'[h] \ {u} :
        v.copy \in {"none", "lost"} /\ \E t \in scripts[h] \ {s} : SameCommand(v, t)
  BY <1>1, <1>2, <1>3
<1>8. u \in scripts'[h] /\ UNCHANGED pageVars
  BY <1>2 DEF TakesOver
<1> QED BY <1>2, <1>4, <1>6, <1>7, <1>8

(* A copy that begins again under an install leaves the commands the same. *)
LEMMA CopyBeginsEffect ==
  ASSUME TypeInv, CopyBegins, page'.step = "copying"
  PROVE  /\ Busy /\ page.op = "deploy" /\ page.step = "next" /\ h0 \in Hosts
         /\ page' = [page EXCEPT !.step = "copying"] /\ h0' = h0 /\ UNCHANGED <<opened, shown>>
         /\ tmp' = [tmp EXCEPT ![h0] = "partial"]
         /\ raced' = [raced EXCEPT ![h0] = @ \/ Deploying(h0)]
         /\ scripts' \in [Hosts -> SUBSET Scripts]
         /\ \A g \in Hosts \ {h0} : scripts'[g] = scripts[g]
         /\ \A v \in scripts'[h0] : \E t \in scripts[h0] : SameCommand(v, t)
<1> DEFINE Spoils(t) == [t EXCEPT !.copy = IF @ = "whole" THEN "partial" ELSE @]
<1>1. Busy /\ page.op = "deploy" /\ page.step = "next" /\ h0 \in Hosts
  BY HeadAndTail DEF CopyBegins, TypeInv, Busy, h0
<1>2. ~NextHost("red")
  BY DEF NextHost, TypeInv
<1>3. /\ page' = [page EXCEPT !.step = "copying"] /\ UNCHANGED <<opened, shown>>
      /\ tmp' = [tmp EXCEPT ![h0] = "partial"]
      /\ raced' = [raced EXCEPT ![h0] = @ \/ Deploying(h0)]
      /\ scripts' = [scripts EXCEPT ![h0] = {Spoils(t) : t \in scripts[h0]}]
  BY <1>2 DEF CopyBegins
<1>4. h0' = h0
  BY <1>3 DEF h0, TypeInv
<1>5. \A t \in Scripts : Spoils(t) \in Scripts /\ SameCommand(Spoils(t), t)
  BY DEF Scripts, Copies, SameCommand
<1> HIDE DEF Spoils
<1>6. scripts'[h0] = {Spoils(t) : t \in scripts[h0]} /\ \A t \in scripts[h0] : t \in Scripts
  BY <1>1, <1>3 DEF TypeInv
<1>7. scripts' \in [Hosts -> SUBSET Scripts] /\ \A g \in Hosts \ {h0} : scripts'[g] = scripts[g]
  <2>1. {Spoils(t) : t \in scripts[h0]} \in SUBSET Scripts
    BY <1>5, <1>6
  <2>2. scripts \in [Hosts -> SUBSET Scripts]
    BY DEF TypeInv
  <2> QED BY <1>1, <1>3, <2>1, <2>2
<1>8. \A v \in scripts'[h0] : \E t \in scripts[h0] : SameCommand(v, t)
  BY <1>5, <1>6
<1> QED BY <1>1, <1>3, <1>4, <1>7, <1>8

(* The step of one remote command.                                         *)
Command(h, s) ==
  \/ Install(h, s) \/ InstallEnds(h, s) \/ RemoveTmp(h, s) \/ WriteCron(h, s)
  \/ SmokeTest(h, s) \/ SmokeTestEnds(h, s) \/ RejectUninstall(h, s)

LEMMA CommandMoves ==
  ASSUME TypeInv, NEW h \in Hosts, NEW s \in scripts[h], Command(h, s)
  PROVE  /\ \/ s.step \in 2..5 /\ GoesOn(h, s)
            \/ s.step = 1 /\ TakesOver(h, s)
            \/ \E colour \in {"red", "green"} : Exits(h, s, colour)
         /\ scripts' \in [Hosts -> SUBSET Scripts]
         /\ \A g \in Hosts \ {h} : scripts'[g] = scripts[g]
         /\ \A v \in scripts'[h] : \E t \in scripts[h] : v.op = t.op /\ v.no = t.no
         /\ \/ UNCHANGED pageVars
            \/ Mine(s) /\ h = h0 /\ \E colour \in {"red", "green"} : NextHost(colour)
<1>1. \/ s.step \in 2..5 /\ GoesOn(h, s)
      \/ s.step = 1 /\ TakesOver(h, s)
      \/ \E colour \in {"red", "green"} : Exits(h, s, colour)
  BY DEF Command, Install, InstallEnds, RemoveTmp, WriteCron, SmokeTest, SmokeTestEnds,
         RejectUninstall, Fails
<1>2. CASE s.step \in 2..5 /\ GoesOn(h, s)
  BY <1>1, <1>2, GoesOnEffect
<1>3. CASE TakesOver(h, s)
  BY <1>1, <1>3, TakesOverEffect DEF SameCommand
<1>4. ASSUME NEW colour \in {"red", "green"}, Exits(h, s, colour)
      PROVE  /\ scripts' \in [Hosts -> SUBSET Scripts]
             /\ \A g \in Hosts \ {h} : scripts'[g] = scripts[g]
             /\ \A v \in scripts'[h] : \E t \in scripts[h] : v.op = t.op /\ v.no = t.no
             /\ UNCHANGED pageVars \/ (Mine(s) /\ h = h0 /\ NextHost(colour))
  BY <1>4, ExitsEffect
<1> QED BY <1>1, <1>2, <1>3, <1>4

(* It concerns its own host, and takes no file of the collectors away.     *)
LEMMA CommandFrame ==
  ASSUME TypeInv, FileInv, NEW h \in Hosts, NEW s \in scripts[h], Command(h, s)
  PROVE  /\ \A g \in Hosts \ {h} : tmp'[g] = tmp[g] /\ bin'[g] = bin[g] /\ cron'[g] = cron[g]
         /\ \A g \in Hosts : DOMAIN files[g] # {} => DOMAIN files'[g] # {}
<1>1. \A g \in Hosts \ {h} : tmp'[g] = tmp[g] /\ bin'[g] = bin[g] /\ cron'[g] = cron[g]
  BY DEF TypeInv, Command, Install, InstallEnds, RemoveTmp, WriteCron, SmokeTest, SmokeTestEnds,
         RejectUninstall
<1>2. UNCHANGED files \/ StartCollects({h}, s.no, now)
  BY DEF Command, Install, InstallEnds, RemoveTmp, WriteCron, SmokeTest, SmokeTestEnds, RejectUninstall
<1>3. ASSUME StartCollects({h}, s.no, now), NEW g \in Hosts
      PROVE  DOMAIN files[g] \subseteq DOMAIN files'[g]
  BY <1>3, CollectsStart
<1> QED BY <1>1, <1>2, <1>3

(* What a step of a remote command leaves alone.                           *)
LEMMA ScriptStepFrame ==
  ASSUME NEW h, ScriptStep(h)
  PROVE  UNCHANGED <<site, raced, pruned, local, now, due>>
BY DEF ScriptStep, procVars, clockVars

(* The hosts' own steps concern the data only, and begin no file: at most  *)
(* a line is written.                                                      *)
LEMMA LineWritten ==
  ASSUME NEW h, HostStep(h)
  PROVE  \/ UNCHANGED files
         \/ \E d, line : files' = [files EXCEPT ![h][d] = Encode(@, line)]
<1>1. CASE CollectStep(h)
  <2>1. PICK c \in collects[h] : SampleNext(h, c) \/ CollectEnds(h, c)
    BY <1>1 DEF CollectStep
  <2>2. CASE CollectEnds(h, c)
    BY <2>2 DEF CollectEnds
  <2>3. CASE SampleNext(h, c)
    <3>1. \/ Passes(h, c, Min(c.left))
          \/ \E line : Write(h, c, Min(c.left), line)
      BY <2>3, Zenon DEF SampleNext
    <3>2. CASE Passes(h, c, Min(c.left))
      BY <3>2 DEF Passes
    <3>3. ASSUME NEW line, Write(h, c, Min(c.left), line)
          PROVE  \/ UNCHANGED files
                 \/ \E d, x : files' = [files EXCEPT ![h][d] = Encode(@, x)]
      BY <3>3, Zenon DEF Write, WriteFails, Passes
    <3> QED BY <3>1, <3>2, <3>3
  <2> QED BY <2>1, <2>2, <2>3
<1>2. ASSUME NEW p, Prune(h) \/ Fork(h, p) \/ Exit(h, p) \/ Burn(h, p) PROVE UNCHANGED files
  BY <1>2 DEF Prune, Fork, Exit, Burn, dataVars
<1> QED BY <1>1, <1>2 DEF HostStep

LEMMA HostStepFrame ==
  ASSUME FileInv, NEW h \in Hosts, HostStep(h)
  PROVE  /\ UNCHANGED <<site, pageVars, remoteVars, local, now>>
         /\ files' = [g \in Hosts |-> files'[g]]
         /\ \A g \in Hosts : DOMAIN files'[g] = DOMAIN files[g]
<1>1. UNCHANGED <<site, pageVars, remoteVars, local, now>>
  <2>1. Prune(h) => UNCHANGED <<site, pageVars, remoteVars, local, now>>
    BY DEF Prune
  <2>2. CollectStep(h) => UNCHANGED <<site, pageVars, remoteVars, local, now>>
    BY DEF CollectStep, SampleNext, CollectEnds, clockVars
  <2>3. ASSUME NEW p, Fork(h, p) \/ Exit(h, p) \/ Burn(h, p)
        PROVE  UNCHANGED <<site, pageVars, remoteVars, local, now>>
    BY <2>3 DEF Fork, Exit, Burn, clockVars
  <2> QED BY <2>1, <2>2, <2>3 DEF HostStep
<1>2. CASE UNCHANGED files
  BY <1>1, <1>2 DEF FileInv
<1>3. ASSUME NEW d, NEW line, files' = [files EXCEPT ![h][d] = Encode(@, line)]
      PROVE  /\ files' = [g \in Hosts |-> files'[g]]
             /\ \A g \in Hosts : DOMAIN files'[g] = DOMAIN files[g]
  BY <1>3 DEF FileInv
<1> QED BY <1>1, <1>2, <1>3, LineWritten

-----------------------------------------------------------------------------
(* Types.                                                                  *)

LEMMA OpenEffect ==
  ASSUME TypeInv, NEW op \in {"deploy", "uninstall", "pull"}, Open(op)
  PROVE  /\ page' \in [op : Ops, no : Nat, left : Seq(Hosts), step : {"next", "failed"}]
         /\ page'.op = op /\ page'.no = opened + 1 /\ opened' = opened + 1
         /\ \/ page'.left = S.hosts /\ page'.step = "next"
            \/ page'.left = <<>> /\ page'.step = "failed"
         /\ shown' = [h \in Hosts |-> ""]
         /\ UNCHANGED <<site, remoteVars, dataVars, procVars, clockVars, local>>
<1>1. /\ opened' = opened + 1 /\ shown' = [h \in Hosts |-> ""]
      /\ UNCHANGED <<site, remoteVars, dataVars, procVars, clockVars, local>>
      /\ \/ page' = [op |-> op, no |-> opened + 1, left |-> S.hosts, step |-> "next"]
         \/ page' = [op |-> op, no |-> opened + 1, left |-> <<>>, step |-> "failed"]
  BY Zenon DEF Open
<1>2. S.hosts \in Seq(Hosts) /\ <<>> \in Seq(Hosts) /\ op \in Ops /\ opened + 1 \in Nat
  <2>1. site \in DOMAIN Sites /\ opened \in Nat
    BY DEF TypeInv
  <2>2. S.hosts \in Seq(Hosts)
    BY <2>1, SiteFacts, Zenon
  <2>3. <<>> \in Seq(Hosts)
    OBVIOUS
  <2> QED BY <2>1, <2>2, <2>3 DEF Ops
<1>3. CASE page' = [op |-> op, no |-> opened + 1, left |-> S.hosts, step |-> "next"]
  BY <1>1, <1>2, <1>3
<1>4. CASE page' = [op |-> op, no |-> opened + 1, left |-> <<>>, step |-> "failed"]
  BY <1>1, <1>2, <1>4
<1> QED BY <1>1, <1>3, <1>4

LEMMA TypeScript ==
  ASSUME TypeInv, PageInv, NEW h \in Hosts, ScriptStep(h)
  PROVE  TypeInv'
<1>1. PICK s \in scripts[h] : Command(h, s)
  BY DEF ScriptStep, Command
<1>2. UNCHANGED <<site, raced>>
  BY ScriptStepFrame
<1>3. Hosts' = Hosts
  BY <1>2 DEF Hosts, S
<1>4. tmp' \in [Hosts -> Contents] /\ bin' \in [Hosts -> Contents] /\ cron' \in [Hosts -> BOOLEAN]
  <2>1. tmp' = tmp \/ tmp' = [tmp EXCEPT ![h] = "none"]
    BY <1>1 DEF Command, Install, InstallEnds, RemoveTmp, WriteCron, SmokeTest, SmokeTestEnds, RejectUninstall
  <2>2. bin' = bin \/ \E b \in {bin[h], "none", "partial", "whole"} : bin' = [bin EXCEPT ![h] = b]
    BY <1>1, Zenon DEF Command, Install, InstallEnds, RemoveTmp, WriteCron, SmokeTest, SmokeTestEnds,
                       RejectUninstall
  <2>3. cron' = cron \/ \E c \in BOOLEAN : cron' = [cron EXCEPT ![h] = c]
    BY <1>1, Zenon DEF Command, Install, InstallEnds, RemoveTmp, WriteCron, SmokeTest, SmokeTestEnds,
                       RejectUninstall
  <2>4. tmp' \in [Hosts -> Contents]
    BY <2>1 DEF TypeInv, Contents
  <2>5. bin' \in [Hosts -> Contents]
    <3>1. bin \in [Hosts -> Contents] /\ bin[h] \in Contents
      BY DEF TypeInv
    <3>2. ASSUME NEW b \in Contents, bin' = [bin EXCEPT ![h] = b] PROVE bin' \in [Hosts -> Contents]
      BY <3>1, <3>2
    <3> QED BY <2>2, <3>1, <3>2 DEF Contents
  <2>6. cron' \in [Hosts -> BOOLEAN]
    BY <2>3, Zenon DEF TypeInv
  <2> QED BY <2>4, <2>5, <2>6
<1>5. scripts' \in [Hosts -> SUBSET Scripts]
  BY <1>1, CommandMoves
<1>6. CASE UNCHANGED pageVars
  BY <1>2, <1>3, <1>4, <1>5, <1>6 DEF TypeInv, pageVars
<1>7. ASSUME NEW colour \in {"red", "green"}, Mine(s), NextHost(colour)
      PROVE  TypeInv'
  <2>1. Busy
    BY <1>7 DEF Mine, PageInv, Underway
  <2> QED BY <1>2, <1>3, <1>4, <1>5, <1>7, <2>1, NextHostEffect DEF TypeInv, Idle, Underway
<1> QED BY <1>1, <1>6, <1>7, CommandMoves

LEMMA TypeStep ==
  ASSUME TypeInv, PageInv, FileInv, [Next]_vars
  PROVE  TypeInv'
<1>1. site' = site /\ Hosts' = Hosts
  BY SiteIsKept
<1>2. /\ site \in DOMAIN Sites /\ opened \in Nat
      /\ page \in [op : Ops, no : Nat, left : Seq(Hosts), step : Idle \cup Underway]
      /\ scripts \in [Hosts -> SUBSET Scripts]
  BY DEF TypeInv
<1>3. ASSUME NEW colour \in {"red", "green"}, NextHost(colour), Busy,
             UNCHANGED <<tmp, bin, cron, scripts>>, raced' \in [Hosts -> BOOLEAN]
      PROVE  TypeInv'
  BY <1>1, <1>3, NextHostEffect DEF TypeInv, Idle, Underway
<1>4. ASSUME NEW op \in {"deploy", "uninstall", "pull"}, Open(op) PROVE TypeInv'
  <2>1. /\ page' \in [op : Ops, no : Nat, left : Seq(Hosts), step : {"next", "failed"}]
        /\ opened' = opened + 1 /\ shown' = [h \in Hosts |-> ""] /\ UNCHANGED remoteVars
    BY <1>4, OpenEffect
  <2>2. page' \in [op : Ops, no : Nat, left : Seq(Hosts), step : Idle \cup Underway]
    BY <2>1 DEF Idle, Underway
  <2>3. opened' \in Nat /\ shown' \in [Hosts -> {"", "red", "green"}]
    <3>1. opened \in Nat /\ opened' = opened + 1 /\ shown' = [h \in Hosts |-> ""]
      BY <1>2, <2>1, Zenon
    <3>2. \A n \in Nat : n + 1 \in Nat
      OBVIOUS
    <3>3. opened' \in Nat
      BY <3>1, <3>2, Zenon
    <3>4. shown' \in [Hosts -> {"", "red", "green"}]
      BY <3>1, Zenon
    <3> QED BY <3>3, <3>4
  <2>4. UNCHANGED <<tmp, bin, cron, scripts, raced>>
    BY <2>1 DEF remoteVars
  <2> QED BY <1>1, <2>2, <2>3, <2>4 DEF TypeInv
<1>5. CASE CopyBegins
  <2>1. CASE NextHost("red") /\ UNCHANGED <<tmp, raced, scripts>>
    BY <1>3, <1>5, <2>1 DEF CopyBegins, TypeInv
  <2>2. CASE ~(NextHost("red") /\ UNCHANGED <<tmp, raced, scripts>>)
    <3>1. page' = [page EXCEPT !.step = "copying"] /\ UNCHANGED <<shown, opened, bin, cron>>
      BY <1>5, <2>2 DEF CopyBegins
    <3>2. page'.step = "copying"
      BY <1>2, <3>1
    <3>3. /\ tmp' = [tmp EXCEPT ![h0] = "partial"]
          /\ raced' = [raced EXCEPT ![h0] = @ \/ Deploying(h0)]
          /\ scripts' \in [Hosts -> SUBSET Scripts]
      BY <1>5, <3>2, CopyBeginsEffect
    <3>4. page' \in [op : Ops, no : Nat, left : Seq(Hosts), step : Idle \cup Underway]
      BY <1>2, <3>1 DEF Underway
    <3>5. tmp' \in [Hosts -> Contents]
      BY <3>3 DEF TypeInv, Contents
    <3>6. (raced[h0] \/ Deploying(h0)) \in BOOLEAN /\ raced' \in [Hosts -> BOOLEAN]
      <4>1. h0 \in Hosts
        BY <1>5, <3>2, CopyBeginsEffect
      <4>2. (raced[h0] \/ Deploying(h0)) \in BOOLEAN /\ raced \in [Hosts -> BOOLEAN]
        BY <4>1 DEF TypeInv, Deploying
      <4> QED BY <3>3, <4>2, Zenon
    <3> QED BY <1>1, <3>1, <3>3, <3>4, <3>5, <3>6 DEF TypeInv
  <2> QED BY <2>1, <2>2
<1>6. CASE CopyEnds
  <2>1. Busy
    BY <1>6 DEF CopyEnds, PageInv, Underway
  <2>2. CASE NextHost("red") /\ UNCHANGED tmp
    BY <1>3, <1>6, <2>1, <2>2 DEF CopyEnds, TypeInv
  <2>3. CASE ~(NextHost("red") /\ UNCHANGED tmp)
    <3>1. page' \in [op : Ops, no : Nat, left : Seq(Hosts), step : Idle \cup Underway]
      BY <1>2, <1>6, <2>3 DEF CopyEnds, Underway
    <3>2. tmp' = [tmp EXCEPT ![h0] = IF @ = "none" THEN "none" ELSE "whole"]
      BY <1>6, <2>3, Zenon DEF CopyEnds
    <3>3. tmp' \in [Hosts -> Contents]
      BY <3>2 DEF TypeInv, Contents
    <3> QED BY <1>1, <1>6, <2>3, <3>1, <3>3 DEF CopyEnds, TypeInv
  <2> QED BY <2>2, <2>3
<1>7. CASE Launch
  <2>1. Busy
    BY <1>7 DEF Launch, PageInv, Underway
  <2>2. h0 \in Hosts
    BY <1>2, <2>1, HeadAndTail DEF Busy, h0
  <2>3. CASE NextHost("red") /\ UNCHANGED <<scripts, raced>>
    BY <1>3, <1>7, <2>1, <2>3 DEF Launch, TypeInv
  <2>4. CASE ~(NextHost("red") /\ UNCHANGED <<scripts, raced>>)
    <3>1. NewScript \in Scripts
      BY <1>2, <1>7 DEF Launch, NewScript, Scripts, Copies
    <3>2. page' \in [op : Ops, no : Nat, left : Seq(Hosts), step : Idle \cup Underway]
      BY <1>2, <1>7, <2>4 DEF Launch, Underway
    <3>3. scripts' \in [Hosts -> SUBSET Scripts] /\ raced' \in [Hosts -> BOOLEAN]
      <4>1. /\ scripts' = [scripts EXCEPT ![h0] = @ \cup {NewScript}]
            /\ raced' = [raced EXCEPT ![h0] = @ \/ (page.op = "deploy" /\ Deploying(h0))]
        BY <1>7, <2>4, Zenon DEF Launch
      <4>2. scripts' \in [Hosts -> SUBSET Scripts]
        BY <2>2, <3>1, <4>1 DEF TypeInv
      <4>3. /\ (raced[h0] \/ (page.op = "deploy" /\ Deploying(h0))) \in BOOLEAN
            /\ raced \in [Hosts -> BOOLEAN]
        BY <2>2 DEF TypeInv, Deploying
      <4>4. raced' \in [Hosts -> BOOLEAN]
        BY <4>1, <4>3, Zenon
      <4> QED BY <4>2, <4>4
    <3> QED BY <1>1, <1>7, <2>4, <3>2, <3>3 DEF Launch, TypeInv
  <2> QED BY <2>3, <2>4
<1>8. CASE ConnectionLost \/ Pull \/ PullFails
  <2>1. Busy
    BY <1>8 DEF ConnectionLost, Pull, PullFails, PageInv, Underway
  <2> QED BY <1>3, <1>8, <2>1 DEF ConnectionLost, Pull, PullFails, TypeInv, remoteVars
<1>9. CASE Cancel
  <2>1. page' \in [op : Ops, no : Nat, left : Seq(Hosts), step : Idle \cup Underway]
    <3>1. <<>> \in Seq(Hosts)
      OBVIOUS
    <3> QED BY <1>2, <1>9, <3>1 DEF Cancel, Idle
  <2> QED BY <1>1, <1>9, <2>1 DEF Cancel, TypeInv, remoteVars
<1>10. CASE Tick \/ UNCHANGED vars
  BY <1>1, <1>10 DEF Tick, vars, TypeInv, pageVars, remoteVars
<1>11. ASSUME NEW h \in Hosts, ScriptStep(h) PROVE TypeInv'
  BY <1>11, TypeScript
<1>12. ASSUME NEW h \in Hosts, HostStep(h) PROVE TypeInv'
  <2>1. UNCHANGED <<pageVars, remoteVars>>
    BY <1>12, HostStepFrame
  <2> QED BY <1>1, <2>1 DEF TypeInv, pageVars, remoteVars
<1> QED BY <1>4, <1>5, <1>6, <1>7, <1>8, <1>9, <1>10, <1>11, <1>12 DEF Next, PageStep

-----------------------------------------------------------------------------
(* The page, and the page a remote command belongs to.                     *)

LEMMA PageOfNextHost ==
  ASSUME TypeInv, PageInv, Busy, NEW colour \in {"red", "green"}, NextHost(colour), Hosts' = Hosts
  PROVE  PageInv'
<1>1. /\ page'.op = page.op /\ page'.no = page.no /\ opened' = opened
      /\ page'.step \in {"ended", "next"} /\ (Busy' <=> page'.step = "next")
      /\ Distinct(page'.left)
  BY NextHostEffect
<1>2. page.step \notin {"failed", "cancelled"}
  BY DEF PageInv, Underway
<1>3. ASSUME opened > 0, NEW h \in Hosts PROVE shown'[h] # "" \/ h \in ToSet(page'.left)
  <2>1. shown[h] # "" \/ h \in ToSet(page.left)
    BY <1>2, <1>3 DEF PageInv
  <2>2. CASE h = h0
    BY <2>2, NextHostEffect
  <2>3. CASE h # h0
    BY <2>1, <2>3, NextHostEffect
  <2> QED BY <2>2, <2>3
<1>4. ASSUME NEW h \in Hosts, shown'[h] # "" PROVE h \notin ToSet(page'.left)
  BY <1>4, NextHostEffect DEF PageInv
<1> QED BY <1>1, <1>3, <1>4 DEF PageInv, Underway

LEMMA PageScript ==
  ASSUME TypeInv, PageInv, NEW h \in Hosts, ScriptStep(h), Hosts' = Hosts
  PROVE  \/ UNCHANGED pageVars
         \/ Busy /\ h = h0 /\ \E colour \in {"red", "green"} : NextHost(colour)
<1>1. PICK s \in scripts[h] : Command(h, s)
  BY DEF ScriptStep, Command
<1>2. Mine(s) => Busy
  BY DEF Mine, PageInv, Underway
<1> QED BY <1>1, <1>2, CommandMoves

LEMMA PageStepKept ==
  ASSUME TypeInv, PageInv, FileInv, [Next]_vars
  PROVE  PageInv'
<1>1. Hosts' = Hosts
  BY SiteIsKept
<1>2. /\ site \in DOMAIN Sites /\ opened \in Nat
      /\ page \in [op : Ops, no : Nat, left : Seq(Hosts), step : Idle \cup Underway]
  BY DEF TypeInv
<1>3. ASSUME NEW step \in Underway, page' = [page EXCEPT !.step = step], Busy,
             UNCHANGED <<opened, shown>>,
             step \in {"copying", "copied"} => page.op = "deploy",
             step = "remote" => page.op \in {"deploy", "uninstall"}
      PROVE  PageInv'
  <2>1. page'.op = page.op /\ page'.no = page.no /\ page'.left = page.left /\ page'.step = step
    BY <1>2, <1>3
  <2>2. step \notin {"failed", "cancelled"} /\ page.step \notin {"failed", "cancelled"}
    BY <1>3 DEF PageInv, Underway
  <2> QED BY <1>1, <1>3, <2>1, <2>2 DEF PageInv, Busy
<1>4. CASE Busy /\ \E colour \in {"red", "green"} : NextHost(colour)
  BY <1>1, <1>4, PageOfNextHost
<1>5. CASE UNCHANGED pageVars
  BY <1>1, <1>5 DEF PageInv, Busy, pageVars
<1>6. ASSUME NEW op \in {"deploy", "uninstall", "pull"}, Open(op) PROVE PageInv'
  <2>1. /\ S.hosts # <<>> /\ Distinct(S.hosts) /\ ToSet(S.hosts) = Hosts
        /\ Distinct(<<>>) /\ ToSet(<<>>) = {}
    BY <1>2, SiteFacts DEF Hosts, Distinct, ToSet
  <2>2. /\ page'.op = op /\ page'.no = opened' /\ opened' # 0
        /\ \A h \in Hosts : shown'[h] = ""
    <3>1. page'.op = op /\ page'.no = opened + 1 /\ opened' = opened + 1 /\ shown' = [h \in Hosts |-> ""]
      BY <1>6, OpenEffect
    <3>2. opened' # 0
      <4>1. opened \in Nat /\ opened' = opened + 1
        BY <1>2, <3>1, Zenon
      <4> QED BY <4>1
    <3>3. \A h \in Hosts : shown'[h] = ""
      BY <3>1
    <3> QED BY <3>1, <3>2, <3>3
  <2>3. CASE page'.left = S.hosts /\ page'.step = "next"
    BY <1>1, <2>1, <2>2, <2>3 DEF PageInv, Busy, Underway
  <2>4. CASE page'.left = <<>> /\ page'.step = "failed"
    BY <1>1, <2>1, <2>2, <2>4 DEF PageInv, Busy, Underway
  <2> QED BY <1>6, <2>3, <2>4, OpenEffect
<1>7. CASE CopyBegins
  BY <1>3, <1>4, <1>7 DEF CopyBegins, Underway
<1>8. CASE CopyEnds
  <2>1. Busy
    BY <1>8 DEF CopyEnds, PageInv, Underway
  <2> QED BY <1>3, <1>4, <1>8, <2>1 DEF CopyEnds, Underway
<1>9. CASE Launch
  <2>1. Busy
    BY <1>9 DEF Launch, PageInv, Underway
  <2> QED BY <1>3, <1>4, <1>9, <2>1 DEF Launch, Underway
<1>10. CASE ConnectionLost \/ Pull \/ PullFails
  <2>1. Busy
    BY <1>10 DEF ConnectionLost, Pull, PullFails, PageInv, Underway
  <2> QED BY <1>4, <1>10, <2>1 DEF ConnectionLost, Pull, PullFails
<1>11. CASE Cancel
  <2>1. page'.op = page.op /\ page'.no = page.no /\ page'.left = <<>> /\ page'.step = "cancelled"
    BY <1>2, <1>11 DEF Cancel
  <2>2. Distinct(<<>>) /\ ToSet(<<>>) = {}
    BY DEF Distinct, ToSet
  <2> QED BY <1>1, <1>11, <2>1, <2>2 DEF Cancel, PageInv, Busy, Underway
<1>12. CASE Tick \/ UNCHANGED vars
  BY <1>5, <1>12 DEF Tick, vars
<1>13. ASSUME NEW h \in Hosts, ScriptStep(h) PROVE PageInv'
  BY <1>1, <1>4, <1>5, <1>13, PageScript
<1>14. ASSUME NEW h \in Hosts, HostStep(h) PROVE PageInv'
  BY <1>5, <1>14, HostStepFrame
<1> QED BY <1>6, <1>7, <1>8, <1>9, <1>10, <1>11, <1>12, <1>13, <1>14 DEF Next, PageStep

LEMMA OwnerStepKept ==
  ASSUME TypeInv, PageInv, OwnerInv, FileInv, [Next]_vars
  PROVE  OwnerInv'
<1>1. Hosts' = Hosts
  BY SiteIsKept
<1>2. /\ page.no = opened /\ opened \in Nat
      /\ \A h \in Hosts : \A s \in scripts[h] : s \in Scripts
  BY DEF TypeInv, PageInv
<1>3. CASE UNCHANGED scripts /\ page'.op = page.op /\ page'.no = page.no /\ opened' = opened
  BY <1>1, <1>3 DEF OwnerInv
<1>4. ASSUME NEW colour \in {"red", "green"}, NextHost(colour), Busy
      PROVE  page'.op = page.op /\ page'.no = page.no /\ opened' = opened
  BY <1>4, NextHostEffect
<1>5. ASSUME NEW op \in {"deploy", "uninstall", "pull"}, Open(op) PROVE OwnerInv'
  <2>1. page'.no = opened + 1 /\ opened' = opened + 1 /\ scripts' = scripts
    BY <1>5, OpenEffect DEF remoteVars
  <2>2. ASSUME NEW h \in Hosts, NEW s \in scripts[h] PROVE s.no <= opened /\ s.no \in Nat
    BY <1>2, <2>2 DEF OwnerInv, Scripts
  <2> QED BY <1>1, <1>2, <2>1, <2>2 DEF OwnerInv
<1>6. CASE CopyEnds \/ ConnectionLost \/ Pull \/ PullFails
  <2>1. Busy
    BY <1>6 DEF CopyEnds, ConnectionLost, Pull, PullFails, PageInv, Underway
  <2>2. page'.op = page.op /\ page'.no = page.no /\ opened' = opened
    BY <1>4, <1>6, <2>1 DEF CopyEnds, ConnectionLost, Pull, PullFails, TypeInv
  <2>3. UNCHANGED scripts
    BY <1>6 DEF CopyEnds, ConnectionLost, Pull, PullFails, remoteVars
  <2> QED BY <1>3, <2>2, <2>3
<1>12. CASE CopyBegins
  <2>1. CASE page'.step = "copying"
    <3>1. page'.op = page.op /\ page'.no = page.no /\ opened' = opened
      BY <1>12, <2>1, CopyBeginsEffect DEF TypeInv
    <3>2. ASSUME NEW h \in Hosts, NEW v \in scripts'[h]
          PROVE  \E t \in scripts[h] : v.op = t.op /\ v.no = t.no
      BY <1>12, <2>1, <3>2, CopyBeginsEffect DEF SameCommand
    <3> QED BY <1>1, <3>1, <3>2 DEF OwnerInv
  <2>2. CASE page'.step # "copying"
    <3>1. Busy /\ NextHost("red") /\ UNCHANGED scripts
      BY <1>12, <2>2 DEF CopyBegins, TypeInv
    <3> QED BY <1>3, <1>4, <3>1
  <2> QED BY <2>1, <2>2
<1>7. CASE Launch
  <2>1. Busy
    BY <1>7 DEF Launch, PageInv, Underway
  <2>2. h0 \in Hosts
    BY <2>1, HeadAndTail DEF TypeInv, Busy, h0
  <2>3. page'.op = page.op /\ page'.no = page.no /\ opened' = opened
    BY <1>4, <1>7, <2>1 DEF Launch, TypeInv
  <2>4. scripts' = [scripts EXCEPT ![h0] = @ \cup {NewScript}] \/ UNCHANGED scripts
    BY <1>7, Zenon DEF Launch
  <2>5. NewScript.no = page.no /\ NewScript.op = page.op
    BY DEF NewScript
  <2>6. CASE scripts' = [scripts EXCEPT ![h0] = @ \cup {NewScript}]
    <3>1. \A h \in Hosts : \A s \in scripts'[h] : s \in scripts[h] \/ s = NewScript
      BY <2>2, <2>6 DEF TypeInv
    <3> HIDE DEF NewScript
    <3> QED BY <1>1, <1>2, <2>3, <2>5, <3>1 DEF OwnerInv
  <2> QED BY <1>3, <2>3, <2>4, <2>6
<1>8. CASE Cancel
  BY <1>3, <1>8 DEF Cancel, TypeInv, remoteVars
<1>9. CASE Tick \/ UNCHANGED vars
  BY <1>3, <1>9 DEF Tick, vars, pageVars, remoteVars
<1>10. ASSUME NEW h \in Hosts, ScriptStep(h) PROVE OwnerInv'
  <2>1. PICK s \in scripts[h] : Command(h, s)
    BY <1>10 DEF ScriptStep, Command
  <2>2. page'.op = page.op /\ page'.no = page.no /\ opened' = opened
    <3>1. UNCHANGED pageVars \/ (Busy /\ \E colour \in {"red", "green"} : NextHost(colour))
      BY <1>1, <1>10, PageScript
    <3> QED BY <1>4, <3>1 DEF pageVars
  <2>3. ASSUME NEW g \in Hosts, NEW t \in scripts'[g]
        PROVE  \E u \in scripts[g] : t.op = u.op /\ t.no = u.no
    BY <2>1, <2>3, CommandMoves
  <2> QED BY <1>1, <2>2, <2>3 DEF OwnerInv
<1>11. ASSUME NEW h \in Hosts, HostStep(h) PROVE OwnerInv'
  BY <1>3, <1>11, HostStepFrame DEF pageVars, remoteVars
<1> QED BY <1>5, <1>6, <1>7, <1>8, <1>9, <1>10, <1>11, <1>12 DEF Next, PageStep

-----------------------------------------------------------------------------
(* The hosts.                                                              *)

(* Nothing changes on the host, but a file that is begun.                  *)
LEMMA HostFrame ==
  ASSUME NEW h \in Hosts, HostOK(h), S' = S,
         tmp'[h] = tmp[h], bin'[h] = bin[h], cron'[h] = cron[h], Deploys(h)' = Deploys(h),
         DOMAIN files[h] # {} => DOMAIN files'[h] # {},
         UNCHANGED page \/ page'.step \notin {"copying", "copied"} \/ h # h0'
  PROVE  HostOK(h)'
<1>1. \A s \in Deploys(h)' : Stage(h, s)'
  BY DEF HostOK, Stage, Sound
<1>2. Deploys(h)' = {} => Sound(h)'
  BY DEF HostOK, Sound
<1>3. CASE UNCHANGED page
  BY <1>1, <1>2, <1>3 DEF HostOK, Busy, h0
<1> QED BY <1>1, <1>2, <1>3 DEF HostOK

LEMMA HostPage ==
  ASSUME TypeInv, PageInv, HostInv, PageStep \/ Cancel
  PROVE  HostInv'
<1> SUFFICES ASSUME NEW h \in Hosts', ~raced'[h]
             PROVE  HostOK(h)'
  BY DEF HostInv
<1>1. S' = S /\ Hosts' = Hosts /\ UNCHANGED files
  BY DEF Hosts, S, PageStep, CopyBegins, CopyEnds, Launch, ConnectionLost, Pull, PullFails, Cancel,
         dataVars
<1>2. page \in [op : Ops, no : Nat, left : Seq(Hosts), step : Idle \cup Underway]
  BY DEF TypeInv
<1>3. Busy => h0 \in Hosts
  BY <1>2, HeadAndTail DEF Busy, h0
<1>4. ASSUME ~raced[h], tmp'[h] = tmp[h], bin'[h] = bin[h], cron'[h] = cron[h], scripts'[h] = scripts[h],
             UNCHANGED page \/ page'.step \notin {"copying", "copied"} \/ h # h0'
      PROVE  HostOK(h)'
  BY <1>1, <1>4, HostFrame DEF HostInv, Deploys
<1>5. ASSUME NEW colour \in {"red", "green"}, NextHost(colour), Busy, UNCHANGED remoteVars
      PROVE  HostOK(h)'
  <2>1. page'.step \in {"ended", "next"}
    BY <1>5, NextHostEffect
  <2> QED BY <1>4, <1>5, <2>1 DEF remoteVars
<1>6. CASE CopyBegins
  <2>1. CASE page'.step # "copying"
    BY <1>5, <1>6, <2>1 DEF CopyBegins, TypeInv, remoteVars
  <2>2. ASSUME page'.step = "copying", h = h0 PROVE HostOK(h)'
    <3>1. ~raced[h] /\ ~Deploying(h)
      BY <1>1, <1>6, <2>2, CopyBeginsEffect, Zenon DEF TypeInv
    <3>2. Deploys(h) = {} /\ Deploys(h)' = {}
      BY <1>6, <2>2, <3>1, CopyBeginsEffect DEF Deploys, Deploying, SameCommand
    <3>3. Sound(h) /\ UNCHANGED <<bin, cron>>
      BY <1>1, <1>6, <3>1, <3>2 DEF HostInv, HostOK, CopyBegins
    <3>4. tmp'[h] = "partial"
      BY <1>6, <2>2, CopyBeginsEffect DEF TypeInv
    <3> QED BY <1>1, <2>2, <3>2, <3>3, <3>4 DEF HostOK, Sound
  <2>3. ASSUME page'.step = "copying", h # h0 PROVE HostOK(h)'
    <3>1. tmp'[h] = tmp[h] /\ scripts'[h] = scripts[h] /\ h # h0' /\ UNCHANGED <<bin, cron>>
      BY <1>1, <1>6, <2>3, CopyBeginsEffect DEF TypeInv, CopyBegins
    <3>2. raced'[h] = raced[h]
      BY <1>1, <1>6, <2>3, CopyBeginsEffect DEF TypeInv
    <3> QED BY <1>4, <3>1, <3>2
  <2> QED BY <2>1, <2>2, <2>3
<1>7. CASE CopyEnds
  <2>1. Busy /\ h0 \in Hosts
    BY <1>3, <1>7 DEF CopyEnds, PageInv, Underway
  <2>2. CASE NextHost("red") /\ UNCHANGED tmp
    BY <1>5, <1>7, <2>1, <2>2 DEF CopyEnds, remoteVars
  <2>3. CASE ~(NextHost("red") /\ UNCHANGED tmp)
    <3>1. /\ page' = [page EXCEPT !.step = "copied"]
          /\ tmp' = [tmp EXCEPT ![h0] = IF @ = "none" THEN "none" ELSE "whole"]
          /\ UNCHANGED <<bin, cron, scripts, raced>>
      BY <1>7, <2>3, Zenon DEF CopyEnds
    <3>2. page'.left = page.left /\ page'.step = "copied" /\ h0' = h0
      BY <1>2, <3>1 DEF h0
    <3>3. CASE h = h0
      <4>1. HostOK(h) /\ page.step = "copying"
        BY <1>1, <1>7, <3>1 DEF CopyEnds, HostInv
      <4>2. Deploys(h) = {} /\ Deploys(h)' = {} /\ tmp[h] # "none" /\ Sound(h)
        BY <2>1, <3>1, <3>3, <4>1 DEF HostOK, Deploys
      <4>3. tmp'[h] = "whole"
        BY <2>1, <3>1, <3>3, <4>2 DEF TypeInv
      <4> QED BY <1>1, <3>1, <4>2, <4>3 DEF HostOK, Sound
    <3>4. CASE h # h0
      <4>1. tmp'[h] = tmp[h]
        BY <1>1, <3>1, <3>4 DEF TypeInv
      <4> QED BY <1>4, <3>1, <3>2, <3>4, <4>1
    <3> QED BY <3>3, <3>4
  <2> QED BY <2>2, <2>3
<1>8. CASE Launch
  <2>1. Busy /\ h0 \in Hosts
    BY <1>3, <1>8 DEF Launch, PageInv, Underway
  <2>2. CASE NextHost("red") /\ UNCHANGED <<scripts, raced>>
    BY <1>5, <1>8, <2>1, <2>2 DEF Launch, remoteVars
  <2>3. CASE ~(NextHost("red") /\ UNCHANGED <<scripts, raced>>)
    <3>1. /\ scripts' = [scripts EXCEPT ![h0] = @ \cup {NewScript}]
          /\ raced' = [raced EXCEPT ![h0] = @ \/ (page.op = "deploy" /\ Deploying(h0))]
          /\ page' = [page EXCEPT !.step = "remote"]
          /\ UNCHANGED <<tmp, bin, cron>>
      BY <1>8, <2>3, Zenon DEF Launch
    <3>2. page'.step = "remote" /\ NewScript.op = page.op /\ NewScript.step = 1
      BY <1>2, <3>1 DEF NewScript
    <3>3. CASE h = h0
      <4>1. ~raced[h] /\ ~(page.op = "deploy" /\ Deploying(h))
        BY <1>1, <3>1, <3>3, Zenon DEF TypeInv
      <4>2. scripts'[h] = scripts[h] \cup {NewScript}
        BY <2>1, <3>1, <3>3 DEF TypeInv
      <4>3. HostOK(h)
        BY <1>1, <4>1 DEF HostInv
      <4>4. CASE page.op = "deploy"
        <5>1. Deploys(h) = {} /\ Sound(h)
          BY <4>1, <4>3, <4>4 DEF Deploys, Deploying, HostOK
        <5>2. Deploys(h)' = {NewScript}
          BY <3>2, <4>2, <4>4, <5>1 DEF Deploys
        <5>3. tmp[h] = "whole"
          BY <1>8, <2>1, <3>3, <4>3, <4>4 DEF Launch, HostOK
        <5>4. ASSUME NEW s, s.step = 1 PROVE Stage(h, s)'
          BY <1>1, <3>1, <5>1, <5>3, <5>4 DEF Stage, Sound
        <5>5. ASSUME NEW s, NEW u, Deploys(h)' = {s}, s = u, u.step = 1 PROVE HostOK(h)'
          BY <3>2, <5>4, <5>5 DEF HostOK
        <5> QED BY <3>2, <5>2, <5>5
      <4>5. CASE page.op # "deploy"
        <5>1. Deploys(h)' = Deploys(h)
          BY <3>2, <4>2, <4>5 DEF Deploys
        <5> QED BY <1>1, <3>1, <3>2, <4>3, <5>1, HostFrame
      <4> QED BY <4>4, <4>5
    <3>4. CASE h # h0
      <4>1. ~raced[h] /\ scripts'[h] = scripts[h]
        BY <1>1, <2>1, <3>1, <3>4 DEF TypeInv
      <4> QED BY <1>4, <3>1, <3>2, <4>1
    <3> QED BY <3>3, <3>4
  <2> QED BY <2>2, <2>3
<1>9. CASE ConnectionLost \/ Pull \/ PullFails
  <2>1. Busy
    BY <1>9 DEF ConnectionLost, Pull, PullFails, PageInv, Underway
  <2> QED BY <1>5, <1>9, <2>1 DEF ConnectionLost, Pull, PullFails
<1>10. CASE Cancel
  <2>1. page'.step = "cancelled"
    BY <1>2, <1>10 DEF Cancel
  <2> QED BY <1>4, <1>10, <2>1 DEF Cancel, remoteVars
<1> QED BY <1>6, <1>7, <1>8, <1>9, <1>10 DEF PageStep

(* A remote command that no other meets.                                   *)
LEMMA HostScript ==
  ASSUME TypeInv, PageInv, HostInv, FileInv, NEW h \in Hosts, ScriptStep(h)
  PROVE  HostInv'
<1>1. PICK s \in scripts[h] : Command(h, s)
  BY DEF ScriptStep, Command
<1>2. S' = S /\ Hosts' = Hosts /\ UNCHANGED raced
  BY ScriptStepFrame DEF Hosts, S
<1>3. UNCHANGED page \/ page'.step \in {"ended", "next"}
  <2>1. UNCHANGED pageVars \/ (Busy /\ \E colour \in {"red", "green"} : NextHost(colour))
    BY <1>2, PageScript
  <2> QED BY <2>1, NextHostEffect DEF pageVars
<1>4. s \in Scripts
  BY DEF TypeInv
<1>5. /\ \A g \in Hosts \ {h} : tmp'[g] = tmp[g] /\ bin'[g] = bin[g] /\ cron'[g] = cron[g]
                              /\ scripts'[g] = scripts[g]
      /\ \A g \in Hosts : DOMAIN files[g] # {} => DOMAIN files'[g] # {}
  BY <1>1, CommandFrame, CommandMoves
<1>6. ASSUME NEW g \in Hosts \ {h}, ~raced[g] PROVE HostOK(g)'
  BY <1>2, <1>3, <1>5, <1>6, HostFrame DEF HostInv, Deploys
<1>7. ASSUME ~raced[h], RejectUninstall(h, s) PROVE HostOK(h)'
  <2>1. s.op = "uninstall" /\ UNCHANGED <<tmp, bin, cron, files>> /\ scripts'[h] = scripts[h] \ {s}
    BY <1>7, ExitsEffect DEF RejectUninstall
  <2>2. Deploys(h)' = Deploys(h)
    BY <2>1 DEF Deploys
  <2> QED BY <1>2, <1>3, <1>7, <2>1, <2>2, HostFrame DEF HostInv
<1>8. ASSUME ~raced[h], s.op = "deploy" PROVE HostOK(h)'
  <2>1. HostOK(h)
    BY <1>8 DEF HostInv
  <2>2. Deploys(h) = {s} /\ Stage(h, s)
    BY <1>8, <2>1 DEF HostOK, Deploys
  <2>3. page'.step \notin {"copying", "copied"} \/ ~(Busy' /\ h = h0')
    BY <1>3, <2>1, <2>2 DEF HostOK, Busy, h0
  <2>4. ASSUME NEW colour, Exits(h, s, colour), Sound(h)' PROVE HostOK(h)'
    <3>1. Deploys(h)' = {}
      BY <2>2, <2>4, ExitsEffect DEF Deploys
    <3> QED BY <2>3, <2>4, <3>1 DEF HostOK
  <2>5. ASSUME NEW t, Deploys(h)' = {t}, Stage(h, t)' PROVE HostOK(h)'
    BY <2>3, <2>5 DEF HostOK
  <2>6. ASSUME s.step < 6, GoesOn(h, s),
               \A t \in Scripts : t.op = s.op /\ t.step = s.step + 1 /\ t.copy = s.copy => Stage(h, t)'
        PROVE  HostOK(h)'
    <3>1. PICK t \in Scripts : /\ t.op = s.op /\ t.step = s.step + 1 /\ t.copy = s.copy
                               /\ scripts'[h] = (scripts[h] \ {s}) \cup {t}
      BY <2>6, GoesOnEffect
    <3>2. Deploys(h)' = {t}
      BY <1>8, <2>2, <3>1 DEF Deploys
    <3> QED BY <2>5, <2>6, <3>1, <3>2
  <2>7. CASE Fails(h, s)
    BY <1>2, <2>4, <2>7 DEF Fails, Sound
  <2>8. CASE Install(h, s)
    <3>1. s.step = 1 /\ tmp[h] = "whole" /\ UNCHANGED tmp
      BY <2>2, <2>8 DEF Install, Stage
    <3>2. CASE TakesOver(h, s)
      <4>1. PICK u \in scripts'[h] :
              /\ u.op = s.op /\ u.step = 2 /\ u.copy = "whole"
              /\ \A v \in scripts'[h] \ {u} : \E t \in scripts[h] \ {s} : SameCommand(v, t)
        BY <3>1, <3>2, TakesOverEffect
      <4>2. Deploys(h)' = {u}
        BY <1>8, <2>2, <4>1 DEF Deploys, SameCommand
      <4>3. Stage(h, u)'
        BY <4>1 DEF Stage
      <4> QED BY <2>5, <4>2, <4>3
    <3> QED BY <2>7, <2>8, <3>1, <3>2 DEF Install
  <2>9. CASE InstallEnds(h, s)
    <3>1. s.step = 2 /\ s.copy = "whole"
      BY <2>2, <2>9 DEF InstallEnds, Stage
    <3>2. CASE GoesOn(h, s) /\ bin' = [bin EXCEPT ![h] = "whole"]
      <4>1. bin'[h] = "whole"
        BY <3>2 DEF TypeInv
      <4>2. \A t : t.step = 3 => Stage(h, t)'
        BY <4>1 DEF Stage
      <4> QED BY <2>6, <3>1, <3>2, <4>2
    <3> QED BY <2>7, <2>9, <3>1, <3>2 DEF InstallEnds
  <2>10. CASE RemoveTmp(h, s)
    <3>1. s.step = 3 /\ GoesOn(h, s) /\ UNCHANGED bin
      BY <2>10 DEF RemoveTmp
    <3>2. \A t : t.step = 4 => Stage(h, t)'
      BY <2>2, <3>1 DEF Stage
    <3> QED BY <2>6, <3>1, <3>2
  <2>11. CASE WriteCron(h, s)
    <3>1. s.step = 4 /\ UNCHANGED bin
      BY <2>11 DEF WriteCron
    <3>2. CASE GoesOn(h, s) /\ cron' = [cron EXCEPT ![h] = TRUE]
      <4>1. cron'[h]
        BY <3>2 DEF TypeInv
      <4>2. \A t : t.step = 5 => Stage(h, t)'
        BY <2>2, <3>1, <4>1 DEF Stage
      <4> QED BY <2>6, <3>1, <3>2, <4>2
    <3> QED BY <2>7, <2>11, <3>2 DEF WriteCron
  <2>12. CASE SmokeTest(h, s)
    <3>1. s.step = 5 /\ UNCHANGED <<bin, cron>>
      BY <2>12 DEF SmokeTest
    <3>2. bin[h] = "whole" /\ cron[h]
      BY <2>2, <3>1 DEF Stage
    <3>3. CASE GoesOn(h, s) /\ StartCollects({h}, s.no, now)
      <4>1. DOMAIN files'[h] # {}
        BY <3>3, CollectsStart
      <4>2. \A t : t.step = 6 => Stage(h, t)'
        BY <3>1, <3>2, <4>1 DEF Stage
      <4> QED BY <2>6, <3>1, <3>3, <4>2
    <3> QED BY <2>7, <2>12, <3>2, <3>3 DEF SmokeTest
  <2>13. CASE SmokeTestEnds(h, s)
    <3>1. s.step = 6 /\ Exits(h, s, "green") /\ UNCHANGED <<bin, cron>>
      BY <2>13 DEF SmokeTestEnds
    <3>2. Sound(h)'
      BY <2>2, <3>1 DEF Stage, Sound
    <3> QED BY <2>4, <3>1, <3>2
  <2> QED BY <1>1, <1>8, <2>8, <2>9, <2>10, <2>11, <2>12, <2>13 DEF Command, RejectUninstall
<1>9. s.op = "deploy" \/ RejectUninstall(h, s)
  BY <1>1 DEF Command, Install, InstallEnds, RemoveTmp, WriteCron, SmokeTest, SmokeTestEnds
<1> QED BY <1>2, <1>6, <1>7, <1>8, <1>9 DEF HostInv

LEMMA HostStepKept ==
  ASSUME TypeInv, PageInv, HostInv, FileInv, [Next]_vars
  PROVE  HostInv'
<1>1. S' = S /\ Hosts' = Hosts
  BY SiteIsKept
<1>2. ASSUME UNCHANGED remoteVars, UNCHANGED page \/ page'.step \in {"next", "failed"},
             \A h \in Hosts : DOMAIN files[h] # {} => DOMAIN files'[h] # {}
      PROVE  HostInv'
  BY <1>1, <1>2, HostFrame DEF HostInv, remoteVars, Deploys
<1>3. ASSUME NEW op \in {"deploy", "uninstall", "pull"}, Open(op) PROVE HostInv'
  BY <1>2, <1>3, OpenEffect DEF dataVars
<1>4. CASE Tick
  <2>1. \A h \in Hosts : DOMAIN files[h] # {} => DOMAIN files'[h] # {}
    <3>1. PICK hs : StartCollects(hs, 0, now')
      BY <1>4 DEF Tick
    <3> QED BY <3>1, CollectsStart
  <2> QED BY <1>2, <1>4, <2>1 DEF Tick, pageVars
<1>5. CASE UNCHANGED vars
  BY <1>2, <1>5 DEF vars, pageVars, dataVars
<1>6. ASSUME NEW h \in Hosts, HostStep(h) PROVE HostInv'
  BY <1>2, <1>6, HostStepFrame DEF pageVars
<1> QED BY <1>3, <1>4, <1>5, <1>6, HostPage, HostScript DEF Next

-----------------------------------------------------------------------------
(* What is shown.                                                          *)

(* A host that is not the one of this step.                                *)
LEMMA ShownFrame ==
  ASSUME NEW h \in Hosts, ShownOK(h), S' = S,
         shown'[h] = shown[h], page'.op = page.op, raced[h] => raced'[h],
         ~raced'[h] /\ shown[h] = "green" =>
           bin'[h] = bin[h] /\ cron'[h] = cron[h] /\ Deploys(h)' = Deploys(h),
         DOMAIN files[h] # {} => DOMAIN files'[h] # {}, DOMAIN local \subseteq DOMAIN local'
  PROVE  ShownOK(h)'
<1>1. HasData(h) => HasData(h)'
  BY DEF HasData
<1>2. ~raced'[h] /\ shown[h] = "green" => (Deployed(h) => Deployed(h)')
  BY DEF Deployed
<1> QED BY <1>1, <1>2 DEF ShownOK

LEMMA LocalGrows ==
  ASSUME NEW h, NEW got, Fetched(h, got)
  PROVE  /\ DOMAIN local' = DOMAIN local \cup {<<HostName[h], d>> : d \in DOMAIN got}
         /\ DOMAIN got # {} => HasData(h)'
<1>1. DOMAIN local' = DOMAIN local \cup {<<HostName[h], d>> : d \in DOMAIN got}
  BY DEF Fetched
<1>2. ASSUME NEW d \in DOMAIN got PROVE HasData(h)'
  <2>1. <<HostName[h], d>> \in DOMAIN local' /\ <<HostName[h], d>>[1] = HostName[h]
    BY <1>1, <1>2
  <2> QED BY <2>1 DEF HasData
<1> QED BY <1>1, <1>2

LEMMA ShownNextHost ==
  ASSUME TypeInv, PageInv, ShownInv, Busy, NEW colour \in {"red", "green"}, NextHost(colour), S' = S,
         UNCHANGED raced, \A h \in Hosts \ {h0} : bin'[h] = bin[h] /\ cron'[h] = cron[h]
                                                  /\ scripts'[h] = scripts[h],
         \A h \in Hosts : DOMAIN files[h] # {} => DOMAIN files'[h] # {},
         DOMAIN local \subseteq DOMAIN local', \A h \in Hosts : h = h0 => ShownOK(h)'
  PROVE  ShownInv'
<1>1. Hosts' = Hosts
  BY DEF Hosts
<1>2. ASSUME NEW h \in Hosts, h # h0 PROVE ShownOK(h)'
  <2>1. shown'[h] = shown[h] /\ page'.op = page.op
    BY <1>2, NextHostEffect
  <2> QED BY <1>2, <2>1, ShownFrame DEF ShownInv, Deploys
<1> QED BY <1>1, <1>2 DEF ShownInv

LEMMA ShownPage ==
  ASSUME TypeInv, PageInv, ShownInv, PageStep \/ Cancel
  PROVE  ShownInv'
<1>1. UNCHANGED <<site, files, bin, cron>> /\ S' = S /\ Hosts' = Hosts
  BY DEF Hosts, S, PageStep, CopyBegins, CopyEnds, Launch, ConnectionLost, Pull, PullFails, Cancel,
         dataVars, remoteVars
<1>2. DOMAIN local \subseteq DOMAIN local'
  <2>1. UNCHANGED local \/ \E h, got : Fetched(h, got)
    BY DEF PageStep, CopyBegins, CopyEnds, Launch, ConnectionLost, Pull, PullFails, CutShort, Cancel
  <2> QED BY <2>1, LocalGrows
<1>3. page \in [op : Ops, no : Nat, left : Seq(Hosts), step : Idle \cup Underway]
  BY DEF TypeInv
<1>4. Busy => h0 \in Hosts /\ shown[h0] = ""
  <2>1. Busy => h0 \in Hosts /\ h0 \in ToSet(page.left)
    BY <1>3, HeadAndTail DEF Busy, h0
  <2> QED BY <2>1 DEF PageInv
<1>5. ASSUME NEW h \in Hosts, shown'[h] = shown[h], page'.op = page.op, raced[h] => raced'[h],
             shown[h] = "green" => scripts'[h] = scripts[h]
      PROVE  ShownOK(h)'
  BY <1>1, <1>2, <1>5, ShownFrame DEF ShownInv, Deploys
<1>6. ASSUME NEW colour \in {"red", "green"}, NextHost(colour), Busy, UNCHANGED <<raced, scripts>>,
             colour = "red" => MayRefuse \/ page.op = "pull",
             colour = "green" => page.op = "pull" /\ \A h \in Hosts : h = h0 => HasData(h)'
      PROVE  ShownInv'
  <2>1. page'.op = page.op
    BY <1>6, NextHostEffect
  <2>2. ASSUME NEW h \in Hosts, h = h0 PROVE ShownOK(h)'
    <3>1. shown'[h] = colour
      BY <1>6, <2>2, NextHostEffect
    <3>2. CASE colour = "red"
      BY <1>1, <1>6, <2>1, <2>2, <3>1, <3>2 DEF MayRefuse, MayFail, ShownOK
    <3>3. CASE colour = "green"
      BY <1>6, <2>1, <2>2, <3>1, <3>3 DEF ShownOK
    <3> QED BY <3>2, <3>3
  <2> QED BY <1>1, <1>2, <1>6, <2>2, ShownNextHost
<1>7. CASE CopyBegins
  <2>1. CASE page'.step = "copying"
    <3>1. page'.op = page.op /\ UNCHANGED shown
      BY <1>3, <1>7, <2>1, CopyBeginsEffect
    <3>2. \A h \in Hosts : raced[h] => raced'[h]
      BY <1>7, <2>1, CopyBeginsEffect, Zenon DEF TypeInv
    <3>3. \A h \in Hosts : shown[h] = "green" => scripts'[h] = scripts[h]
      BY <1>4, <1>7, <2>1, CopyBeginsEffect
    <3> QED BY <1>1, <1>5, <3>1, <3>2, <3>3 DEF ShownInv
  <2>2. CASE page'.step # "copying"
    BY <1>3, <1>6, <1>7, <2>2 DEF CopyBegins
  <2> QED BY <2>1, <2>2
<1>8. CASE CopyEnds
  <2>1. Busy /\ UNCHANGED <<raced, scripts>>
    BY <1>8 DEF CopyEnds, PageInv, Underway
  <2>2. CASE page' = [page EXCEPT !.step = "copied"] /\ UNCHANGED shown
    <3>1. page'.op = page.op
      BY <1>3, <2>2
    <3> QED BY <1>1, <1>5, <2>1, <2>2, <3>1 DEF ShownInv
  <2>3. CASE MayRefuse /\ NextHost("red")
    BY <1>6, <2>1, <2>3
  <2> QED BY <1>8, <2>2, <2>3 DEF CopyEnds
<1>9. CASE Launch
  <2>1. Busy
    BY <1>9 DEF Launch, PageInv, Underway
  <2>2. CASE MayRefuse /\ NextHost("red") /\ UNCHANGED <<scripts, raced>>
    BY <1>6, <2>1, <2>2
  <2>3. CASE ~(MayRefuse /\ NextHost("red") /\ UNCHANGED <<scripts, raced>>)
    <3>1. /\ scripts' = [scripts EXCEPT ![h0] = @ \cup {NewScript}]
          /\ raced' = [raced EXCEPT ![h0] = @ \/ (page.op = "deploy" /\ Deploying(h0))]
          /\ page' = [page EXCEPT !.step = "remote"]
          /\ UNCHANGED shown
      BY <1>9, <2>3, Zenon DEF Launch
    <3>2. page'.op = page.op
      BY <1>3, <3>1
    <3>3. \A h \in Hosts : raced[h] => raced'[h]
      BY <3>1, Zenon DEF TypeInv
    <3>4. \A h \in Hosts : shown[h] = "green" => scripts'[h] = scripts[h]
      BY <1>4, <2>1, <3>1 DEF TypeInv
    <3> QED BY <1>1, <1>5, <3>1, <3>2, <3>3, <3>4 DEF ShownInv
  <2> QED BY <2>2, <2>3
<1>10. CASE ConnectionLost \/ PullFails
  <2>1. Busy /\ MayRefuse /\ NextHost("red") /\ UNCHANGED <<raced, scripts>>
    BY <1>10 DEF ConnectionLost, PullFails, remoteVars, MayFail, MayRefuse
  <2> QED BY <1>6, <2>1
<1>11. CASE Pull
  <2>1. Busy /\ page.op = "pull" /\ UNCHANGED <<raced, scripts>>
    BY <1>11 DEF Pull, remoteVars, PageInv, Underway
  <2>2. CASE Remote(h0) = {} /\ NextHost("red")
    BY <1>6, <2>1, <2>2
  <2>3. CASE Remote(h0) # {} /\ NextHost("green")
    <3>1. ASSUME NEW h \in Hosts, h = h0 PROVE HasData(h)'
      BY <1>11, <2>3, <3>1, LocalGrows DEF Pull
    <3> QED BY <1>6, <2>1, <2>3, <3>1
  <2> QED BY <1>11, <2>2, <2>3 DEF Pull
<1>12. CASE Cancel
  <2>1. page'.op = page.op /\ UNCHANGED <<shown, raced, scripts>>
    BY <1>3, <1>12 DEF Cancel, remoteVars
  <2> QED BY <1>1, <1>5, <2>1 DEF ShownInv
<1> QED BY <1>7, <1>8, <1>9, <1>10, <1>11, <1>12 DEF PageStep

(* The page of a remote command shows how it ended.                        *)
LEMMA ShownScript ==
  ASSUME TypeInv, PageInv, OwnerInv, HostInv, ShownInv, FileInv, NEW h \in Hosts, ScriptStep(h)
  PROVE  ShownInv'
<1>1. PICK s \in scripts[h] : Command(h, s)
  BY DEF ScriptStep, Command
<1>2. UNCHANGED <<site, raced, local>> /\ S' = S /\ Hosts' = Hosts
  BY ScriptStepFrame DEF Hosts, S
<1>3. /\ \A g \in Hosts \ {h} : bin'[g] = bin[g] /\ cron'[g] = cron[g] /\ scripts'[g] = scripts[g]
      /\ \A g \in Hosts : DOMAIN files[g] # {} => DOMAIN files'[g] # {}
  BY <1>1, CommandFrame, CommandMoves
<1>4. CASE UNCHANGED pageVars
  <2>1. ASSUME NEW g \in Hosts PROVE ShownOK(g)'
    <3>1. CASE g # h
      BY <1>2, <1>3, <1>4, <2>1, <3>1, ShownFrame DEF ShownInv, pageVars, Deploys
    <3>2. CASE ~(shown[g] = "green" /\ ~raced[g] /\ page.op = "deploy")
      BY <1>2, <1>4, <2>1, <3>2 DEF ShownInv, ShownOK, pageVars, HasData
    <3>3. CASE g = h /\ shown[h] = "green" /\ ~raced[h] /\ page.op = "deploy"
      <4>1. Deploys(h) = {}
        BY <3>3 DEF ShownInv, ShownOK
      <4>2. RejectUninstall(h, s)
        BY <1>1, <4>1 DEF Deploys, Command, Install, InstallEnds, RemoveTmp, WriteCron, SmokeTest,
                          SmokeTestEnds
      <4>3. UNCHANGED <<bin, cron>> /\ Deploys(h)' = Deploys(h)
        BY <4>1, <4>2, ExitsEffect DEF RejectUninstall, Deploys
      <4> QED BY <1>2, <1>3, <1>4, <3>3, <4>3, ShownFrame DEF ShownInv, pageVars
    <3> QED BY <3>1, <3>2, <3>3
  <2> QED BY <1>2, <2>1 DEF ShownInv
<1>5. ASSUME NEW colour \in {"red", "green"}, Exits(h, s, colour), Mine(s), h = h0, NextHost(colour)
      PROVE  ShownInv'
  <2>1. Busy /\ page.op \in {"deploy", "uninstall"} /\ s.op = page.op
    BY <1>5 DEF Mine, PageInv, Underway, OwnerInv
  <2>2. shown'[h] = colour /\ page'.op = page.op
    BY <1>5, <2>1, NextHostEffect
  <2>3. ASSUME NEW c, Exits(h, s, c) PROVE c = colour
    <3>1. NextHost(c)
      BY <1>5, <2>3 DEF Exits
    <3> QED BY <1>5, <3>1 DEF NextHost, TypeInv
  <2>4. ~GoesOn(h, s) /\ ~TakesOver(h, s)
    <3>1. shown[h] = "" /\ ~UNCHANGED pageVars
      <4>1. h \in ToSet(page.left)
        BY <1>5, <2>1, NextHostEffect
      <4> QED BY <2>2, <4>1 DEF PageInv, pageVars
    <3> QED BY <3>1 DEF GoesOn, TakesOver
  <2>5. ASSUME page.op = "deploy", ~raced[h]
        PROVE  /\ colour = "green" => Deploys(h)' = {} /\ Deployed(h)'
               /\ colour = "red" => h \in S.unfit
    <3>1. Deploys(h) = {s} /\ Stage(h, s)
      BY <2>1, <2>5 DEF HostInv, HostOK, Deploys
    <3>2. Deploys(h)' = {}
      BY <1>5, <3>1, ExitsEffect DEF Deploys
    <3>3. SmokeTestEnds(h, s) \/ Fails(h, s)
      BY <1>1, <2>1, <2>4, <2>5, <3>1 DEF Stage, Command, Install, InstallEnds, RemoveTmp, WriteCron,
                                          SmokeTest, RejectUninstall
    <3>4. CASE Fails(h, s)
      <4>1. Exits(h, s, "red") /\ h \in S.unfit
        BY <3>4 DEF Fails
      <4> QED BY <2>3, <4>1
    <3>5. CASE SmokeTestEnds(h, s)
      <4>1. s.step = 6 /\ Exits(h, s, "green") /\ UNCHANGED <<bin, cron, files>>
        BY <3>5 DEF SmokeTestEnds
      <4>2. Deployed(h)'
        BY <3>1, <4>1 DEF Stage, Deployed
      <4> QED BY <2>3, <3>2, <4>1, <4>2
    <3> QED BY <3>3, <3>4, <3>5
  <2>6. ShownOK(h)'
    BY <1>2, <2>1, <2>2, <2>5 DEF ShownOK
  <2>7. \A g \in Hosts : g = h0 => ShownOK(g)'
    BY <1>5, <2>6
  <2> QED BY <1>2, <1>3, <1>5, <2>1, <2>7, ShownNextHost
<1>6. \/ UNCHANGED pageVars
      \/ \E colour \in {"red", "green"} : Exits(h, s, colour) /\ Mine(s) /\ h = h0 /\ NextHost(colour)
  <2>1. GoesOn(h, s) \/ TakesOver(h, s) => UNCHANGED pageVars
    BY DEF GoesOn, TakesOver
  <2>2. CASE GoesOn(h, s) \/ TakesOver(h, s)
    BY <2>1, <2>2
  <2>3. ASSUME NEW colour \in {"red", "green"}, Exits(h, s, colour)
        PROVE  UNCHANGED pageVars \/ (Exits(h, s, colour) /\ Mine(s) /\ h = h0 /\ NextHost(colour))
    BY <2>3, ExitsEffect
  <2> QED BY <1>1, <2>2, <2>3, CommandMoves
<1> QED BY <1>4, <1>5, <1>6

LEMMA ShownStepKept ==
  ASSUME TypeInv, PageInv, OwnerInv, HostInv, ShownInv, FileInv, [Next]_vars
  PROVE  ShownInv'
<1>1. S' = S /\ Hosts' = Hosts
  BY SiteIsKept
<1>2. ASSUME UNCHANGED <<pageVars, remoteVars, local>>,
             \A h \in Hosts : DOMAIN files[h] # {} => DOMAIN files'[h] # {}
      PROVE  ShownInv'
  BY <1>1, <1>2, ShownFrame DEF ShownInv, pageVars, remoteVars, Deploys
<1>3. ASSUME NEW op \in {"deploy", "uninstall", "pull"}, Open(op) PROVE ShownInv'
  BY <1>1, <1>3 DEF Open, ShownInv, ShownOK
<1>4. CASE Tick
  <2>1. \A h \in Hosts : DOMAIN files[h] # {} => DOMAIN files'[h] # {}
    <3>1. PICK hs : StartCollects(hs, 0, now')
      BY <1>4 DEF Tick
    <3> QED BY <3>1, CollectsStart
  <2> QED BY <1>2, <1>4, <2>1 DEF Tick
<1>5. CASE UNCHANGED vars
  BY <1>2, <1>5 DEF vars, dataVars
<1>6. ASSUME NEW h \in Hosts, HostStep(h) PROVE ShownInv'
  BY <1>2, <1>6, HostStepFrame
<1> QED BY <1>3, <1>4, <1>5, <1>6, ShownPage, ShownScript DEF Next

-----------------------------------------------------------------------------
(* Where deployments met.                                                  *)

(* Nothing changes on the host, and the page goes on or shows a failure.   *)
LEMMA MeetFrame ==
  ASSUME NEW h \in Hosts, MeetOK(h), S' = S,
         tmp'[h] = tmp[h], bin'[h] = bin[h], cron'[h] = cron[h], scripts'[h] = scripts[h],
         DOMAIN files[h] # {} => DOMAIN files'[h] # {},
         page'.op = page.op, page'.no = page.no,
         page.op = "deploy" => shown'[h] \in {shown[h], "red"},
         Own(h) # {} /\ h \in ToSet(page'.left) => h = h0' /\ page'.step = "remote",
         Busy' /\ h = h0' /\ page'.step = "copied" => Busy /\ h = h0 /\ page.step = "copied"
  PROVE  MeetOK(h)'
<1>1. Own(h)' = Own(h) /\ Deploys(h)' = Deploys(h)
  BY DEF Own, Deploys
<1>2. \A n : Reached(h, n)' => Reached(h, n)
  BY <1>1 DEF Reached
<1> QED BY <1>1, <1>2 DEF MeetOK

(* A host whose command the page has not launched yet.                     *)
LEMMA NotReached ==
  ASSUME TypeInv, PageInv, MeetInv, Busy, page.step # "remote"
  PROVE  Own(h0) = {} /\ h0 \in Hosts /\ h0 \in ToSet(page.left) /\ \A n : ~Reached(h0, n)
<1>1. h0 \in Hosts /\ h0 \in ToSet(page.left)
  BY HeadAndTail DEF TypeInv, Busy, h0
<1>2. Own(h0) = {} /\ shown[h0] = ""
  BY <1>1 DEF MeetInv, MeetOK, PageInv
<1> QED BY <1>1, <1>2 DEF Reached

LEMMA MeetNextHost ==
  ASSUME TypeInv, PageInv, MeetInv, Busy, NEW colour \in {"red", "green"}, NextHost(colour), S' = S,
         colour = "green" => page.op # "deploy", UNCHANGED <<tmp, bin, cron, scripts, files>>
  PROVE  MeetInv'
<1>1. Hosts' = Hosts
  BY DEF Hosts
<1>2. ASSUME NEW h \in Hosts PROVE MeetOK(h)'
  <2>1. /\ page'.op = page.op /\ page'.no = page.no /\ page'.step \in {"ended", "next"}
        /\ page.op = "deploy" => shown'[h] \in {shown[h], "red"}
    BY NextHostEffect
  <2>2. ~(Own(h) # {} /\ h \in ToSet(page'.left))
    BY NextHostEffect DEF MeetInv, MeetOK
  <2> QED BY <2>1, <2>2, MeetFrame DEF MeetInv
<1> QED BY <1>1, <1>2 DEF MeetInv

LEMMA MeetPage ==
  ASSUME TypeInv, PageInv, MeetInv, PageStep \/ Cancel
  PROVE  MeetInv'
<1>1. UNCHANGED <<site, files>> /\ S' = S /\ Hosts' = Hosts
  BY DEF Hosts, S, PageStep, CopyBegins, CopyEnds, Launch, ConnectionLost, Pull, PullFails, Cancel,
         dataVars
<1>2. page \in [op : Ops, no : Nat, left : Seq(Hosts), step : Idle \cup Underway]
  BY DEF TypeInv
<1>3. ASSUME NEW colour \in {"red", "green"}, NextHost(colour), Busy,
             colour = "green" => page.op # "deploy", UNCHANGED <<tmp, bin, cron, scripts>>
      PROVE  MeetInv'
  BY <1>1, <1>3, MeetNextHost
<1>4. ASSUME NEW step, page' = [page EXCEPT !.step = step], Busy, page.step # "remote", UNCHANGED <<bin, cron, shown>>,
             NEW h \in Hosts \ {h0}, tmp'[h] = tmp[h], scripts'[h] = scripts[h]
      PROVE  MeetOK(h)'
  <2>1. page'.op = page.op /\ page'.no = page.no /\ page'.left = page.left /\ h0' = h0
    BY <1>2, <1>4 DEF h0
  <2>2. ~(Own(h) # {} /\ h \in ToSet(page'.left))
    BY <1>4, <2>1 DEF MeetInv, MeetOK
  <2> QED BY <1>1, <1>4, <2>1, <2>2, MeetFrame DEF MeetInv
<1>5. CASE CopyBegins
  <2>1. CASE page'.step # "copying"
    BY <1>2, <1>3, <1>5, <2>1 DEF CopyBegins
  <2>2. CASE page'.step = "copying"
    <3>1. Busy /\ page.step = "next" /\ page' = [page EXCEPT !.step = "copying"] /\ UNCHANGED <<bin, cron, shown>>
      BY <1>5, <2>2, CopyBeginsEffect DEF CopyBegins
    <3>2. Own(h0) = {} /\ \A n : ~Reached(h0, n)
      BY <3>1, NotReached
    <3>3. ASSUME NEW h \in Hosts, h = h0 PROVE MeetOK(h)'
      <4>1. page'.op = page.op /\ page'.no = page.no
        BY <1>2, <3>1
      <4>2. Own(h)' = {}
        BY <1>5, <2>2, <3>2, <3>3, <4>1, CopyBeginsEffect DEF Own, SameCommand
      <4>3. \A n : ~Reached(h, n)'
        BY <3>1, <3>2, <3>3, <4>1, <4>2 DEF Reached
      <4> QED BY <2>2, <4>2, <4>3 DEF MeetOK
    <3>4. \A h \in Hosts \ {h0} : tmp'[h] = tmp[h] /\ scripts'[h] = scripts[h]
      BY <1>5, <2>2, CopyBeginsEffect DEF TypeInv
    <3>5. \A h \in Hosts \ {h0} : MeetOK(h)'
      BY <1>4, <3>1, <3>4
    <3> QED BY <1>1, <3>3, <3>5 DEF MeetInv
  <2> QED BY <2>1, <2>2
<1>6. CASE CopyEnds
  <2>1. Busy /\ page.step = "copying" /\ UNCHANGED <<bin, cron, scripts>>
    BY <1>6 DEF CopyEnds, PageInv, Underway
  <2>2. CASE NextHost("red") /\ UNCHANGED tmp
    BY <1>3, <2>1, <2>2
  <2>3. CASE page' = [page EXCEPT !.step = "copied"] /\ UNCHANGED shown
             /\ tmp' = [tmp EXCEPT ![h0] = IF @ = "none" THEN "none" ELSE "whole"]
    <3>1. Own(h0) = {} /\ h0 \in Hosts /\ \A n : ~Reached(h0, n)
      BY <2>1, NotReached
    <3>2. ASSUME NEW h \in Hosts, h = h0 PROVE MeetOK(h)'
      <4>1. page'.op = page.op /\ page'.no = page.no
        BY <1>2, <2>3
      <4>2. Own(h)' = {} /\ \A n : ~Reached(h, n)'
        BY <2>1, <2>3, <3>1, <3>2, <4>1 DEF Own, Reached
      <4>3. tmp'[h] # "partial"
        BY <2>3, <3>1, <3>2 DEF TypeInv
      <4> QED BY <4>2, <4>3 DEF MeetOK
    <3>3. \A h \in Hosts \ {h0} : tmp'[h] = tmp[h] /\ scripts'[h] = scripts[h]
      BY <2>1, <2>3 DEF TypeInv
    <3>4. \A h \in Hosts \ {h0} : MeetOK(h)'
      BY <1>4, <2>1, <2>3, <3>3
    <3> QED BY <1>1, <3>2, <3>4 DEF MeetInv
  <2> QED BY <1>6, <2>2, <2>3 DEF CopyEnds
<1>7. CASE Launch
  <2>1. Busy /\ page.step # "remote" /\ UNCHANGED <<tmp, bin, cron>>
    BY <1>7 DEF Launch, PageInv, Underway
  <2>2. CASE NextHost("red") /\ UNCHANGED scripts
    BY <1>3, <2>1, <2>2
  <2>3. CASE page' = [page EXCEPT !.step = "remote"] /\ UNCHANGED shown
             /\ scripts' = [scripts EXCEPT ![h0] = @ \cup {NewScript}]
    <3>1. Own(h0) = {} /\ h0 \in Hosts /\ shown[h0] = ""
      BY <2>1, NotReached DEF PageInv
    <3>2. ASSUME NEW h \in Hosts, h = h0 PROVE MeetOK(h)'
      <4>1. page'.op = page.op /\ page'.no = page.no /\ page'.step = "remote" /\ h0' = h0
        BY <1>2, <2>3 DEF h0
      <4>2. \A t \in Own(h)' : t.step = 1
        <5>1. scripts'[h] = scripts[h] \cup {NewScript}
          BY <2>3, <3>1, <3>2 DEF TypeInv
        <5>2. NewScript.step = 1
          BY DEF NewScript
        <5> HIDE DEF NewScript
        <5> QED BY <3>1, <3>2, <4>1, <5>1, <5>2 DEF Own
      <4>3. ASSUME NEW n \in 2..6 PROVE ~Reached(h, n)'
        <5>1. shown' = shown /\ ~(1 >= n)
          BY <2>3, <4>3
        <5>2. ~\E t \in Own(h)' : t.step >= n
          BY <4>2, <5>1
        <5> QED BY <3>1, <3>2, <5>1, <5>2 DEF Reached
      <4>4. page.op = "deploy" => tmp[h] # "partial"
        BY <1>7, <2>1, <3>1, <3>2 DEF Launch, MeetInv, MeetOK
      <4> QED BY <2>1, <3>2, <4>1, <4>3, <4>4 DEF MeetOK, Reached
    <3>3. \A h \in Hosts \ {h0} : tmp'[h] = tmp[h] /\ scripts'[h] = scripts[h]
      BY <2>1, <2>3 DEF TypeInv
    <3>4. \A h \in Hosts \ {h0} : MeetOK(h)'
      BY <1>4, <2>1, <2>3, <3>3
    <3> QED BY <1>1, <3>2, <3>4 DEF MeetInv
  <2> QED BY <1>7, <2>2, <2>3 DEF Launch
<1>8. CASE ConnectionLost \/ Pull \/ PullFails
  <2>1. Busy /\ UNCHANGED <<tmp, bin, cron, scripts>>
    BY <1>8 DEF ConnectionLost, Pull, PullFails, PageInv, Underway, remoteVars
  <2>2. NextHost("red") \/ (page.op # "deploy" /\ NextHost("green"))
    BY <1>8 DEF ConnectionLost, Pull, PullFails
  <2> QED BY <1>3, <2>1, <2>2
<1>9. CASE Cancel
  <2>1. /\ page'.op = page.op /\ page'.no = page.no /\ page'.left = <<>> /\ ~Busy'
        /\ ToSet(page'.left) = {} /\ UNCHANGED <<shown, remoteVars>>
    BY <1>2, <1>9 DEF Cancel, Busy, ToSet
  <2> QED BY <1>1, <2>1, MeetFrame DEF MeetInv, remoteVars
<1> QED BY <1>5, <1>6, <1>7, <1>8, <1>9 DEF PageStep

(* What a command has reached, it had reached before or reaches now.       *)
LEMMA MeetScript ==
  ASSUME TypeInv, PageInv, OwnerInv, MeetInv, FileInv, NEW h \in Hosts, ScriptStep(h)
  PROVE  MeetInv'
<1>1. PICK s \in scripts[h] : Command(h, s)
  BY DEF ScriptStep, Command
<1>2. S' = S /\ Hosts' = Hosts
  BY ScriptStepFrame DEF Hosts, S
<1>3. /\ \A g \in Hosts \ {h} : /\ tmp'[g] = tmp[g] /\ bin'[g] = bin[g] /\ cron'[g] = cron[g]
                              /\ scripts'[g] = scripts[g]
      /\ \A g \in Hosts : DOMAIN files[g] # {} => DOMAIN files'[g] # {}
  BY <1>1, CommandFrame, CommandMoves
<1>4. /\ s \in Scripts /\ \A t \in scripts[h] : t \in Scripts
      /\ MeetOK(h) /\ (s.no = page.no => s.op = page.op)
  BY DEF TypeInv, MeetInv, OwnerInv
<1>5. UNCHANGED pageVars \/ (Busy /\ h = h0 /\ \E colour \in {"red", "green"} : NextHost(colour))
  BY <1>2, PageScript
<1>6. page'.op = page.op /\ page'.no = page.no
  BY <1>5, NextHostEffect DEF pageVars
<1>7. ASSUME NEW g \in Hosts \ {h} PROVE MeetOK(g)'
  <2>1. CASE UNCHANGED pageVars
    BY <1>2, <1>3, <2>1, MeetFrame DEF MeetInv, MeetOK, pageVars, Busy, h0
  <2>2. ASSUME Busy, h = h0, NEW colour \in {"red", "green"}, NextHost(colour) PROVE MeetOK(g)'
    <3>1. shown'[g] = shown[g] /\ page'.step \in {"ended", "next"}
      BY <2>2, NextHostEffect
    <3>2. ~(Own(g) # {} /\ g \in ToSet(page'.left))
      BY <2>2, NextHostEffect DEF MeetInv, MeetOK
    <3> QED BY <1>2, <1>3, <1>6, <3>1, <3>2, MeetFrame DEF MeetInv
  <2> QED BY <1>5, <2>1, <2>2
<1>8. ASSUME s.step \in 2..5, GoesOn(h, s), tmp'[h] \in {tmp[h], "none"},
             bin[h] = "whole" \/ (s.step = 2 /\ s.copy = "whole") => bin'[h] = "whole",
             cron[h] \/ s.step = 4 => cron'[h],
             s.step = 5 => DOMAIN files'[h] # {}
      PROVE  MeetOK(h)'
  <2>1. PICK t \in Scripts : /\ t.op = s.op /\ t.no = s.no /\ t.step = s.step + 1 /\ t.copy = s.copy
                             /\ scripts'[h] = (scripts[h] \ {s}) \cup {t}
    BY <1>8, GoesOnEffect
  <2>2. UNCHANGED <<page, opened, shown>>
    BY <1>8 DEF GoesOn, pageVars
  <2>3. ASSUME NEW n \in 1..6, Reached(h, n)' PROVE Reached(h, n) \/ s.step = n - 1
    <3>1. CASE shown[h] = "green"
      BY <2>2, <2>3, <3>1 DEF Reached
    <3>2. ASSUME NEW v \in Own(h)', v.step >= n PROVE Reached(h, n) \/ s.step = n - 1
      <4>1. CASE v \in scripts[h]
        BY <2>2, <2>3, <3>2, <4>1 DEF Reached, Own
      <4>2. CASE v = t
        <5>1. s \in Own(h) /\ s.step \in Nat /\ s.step + 1 >= n
          BY <1>8, <2>1, <2>2, <3>2, <4>2 DEF Own
        <5>2. s.step >= n \/ s.step = n - 1
          BY <5>1
        <5> QED BY <2>2, <2>3, <5>1, <5>2 DEF Reached
      <4> QED BY <2>1, <3>2, <4>1, <4>2 DEF Own
    <3> QED BY <2>2, <2>3, <3>1, <3>2 DEF Reached
  <2>4. (Reached(h, 1)' => Reached(h, 1)) /\ (Reached(h, 2)' => Reached(h, 2))
    BY <1>8, <2>3
  <2>5. Own(h)' # {} => Own(h) # {}
    BY <2>1, <2>2 DEF Own
  <2>6. Own(h)' # {} /\ h \in ToSet(page'.left) => h = h0' /\ page'.step = "remote"
    BY <1>4, <2>2, <2>5 DEF MeetOK, h0
  <2>7. (Busy' /\ h = h0' /\ page'.step = "copied") \/ Reached(h, 1)' => tmp'[h] # "partial"
    BY <1>4, <1>8, <2>2, <2>4 DEF MeetOK, Busy, h0
  <2>8. Reached(h, 2)' => \A v \in scripts'[h] : v.copy # "partial"
    BY <1>4, <2>1, <2>4 DEF MeetOK
  <2>9. Reached(h, 2)' /\ h \notin S'.unfit =>
          bin'[h] = "whole" \/ \E v \in Deploys(h)' : v.step = 2 /\ v.copy = "whole"
    <3> SUFFICES ASSUME Reached(h, 2)', h \notin S'.unfit, bin'[h] # "whole"
                 PROVE  \E v \in Deploys(h)' : v.step = 2 /\ v.copy = "whole"
      OBVIOUS
    <3>1. PICK v \in Deploys(h) : v.step = 2 /\ v.copy = "whole"
      BY <1>2, <1>4, <1>8, <2>4 DEF MeetOK
    <3>2. v # s
      BY <1>8, <3>1
    <3> QED BY <2>1, <3>1, <3>2 DEF Deploys
  <2>10. Reached(h, 5)' /\ h \notin S'.unfit => cron'[h]
    BY <1>2, <1>4, <1>8, <2>3 DEF MeetOK
  <2>11. Reached(h, 6)' => DOMAIN files'[h] # {}
    BY <1>3, <1>4, <1>8, <2>3 DEF MeetOK
  <2> QED BY <2>6, <2>7, <2>8, <2>9, <2>10, <2>11 DEF MeetOK
<1>9. ASSUME NEW colour \in {"red", "green"}, Exits(h, s, colour), colour = "green" => s.step = 6,
             tmp'[h] = tmp[h],
             h \notin S.unfit => (bin'[h] = bin[h] /\ cron'[h] = cron[h] /\ (s.op # "deploy" \/ s.step # 2))
      PROVE  MeetOK(h)'
  <2>1. scripts'[h] = scripts[h] \ {s}
    BY <1>9, ExitsEffect
  <2>2. /\ page'.op = page.op /\ page'.no = page.no
        /\ h \in ToSet(page'.left) => UNCHANGED page
        /\ UNCHANGED page \/ page'.step \in {"ended", "next"}
        /\ shown'[h] = "green" => shown[h] = "green" \/ (s.no = page.no /\ s.step = 6)
    <3>1. CASE UNCHANGED pageVars
      BY <3>1 DEF pageVars
    <3>2. CASE Mine(s) /\ h = h0 /\ NextHost(colour)
      <4>1. Busy
        BY <3>2 DEF Mine, PageInv, Underway
      <4>2. shown'[h] = colour /\ h \notin ToSet(page'.left) /\ page'.step \in {"ended", "next"}
        BY <3>2, <4>1, NextHostEffect
      <4> QED BY <1>6, <1>9, <3>2, <4>2 DEF Mine
    <3> QED BY <1>9, <3>1, <3>2, ExitsEffect
  <2>3. Own(h)' \subseteq Own(h)
    BY <2>1, <2>2 DEF Own
  <2>4. ASSUME NEW n \in 1..6, Reached(h, n)' PROVE Reached(h, n)
    BY <2>2, <2>3, <2>4 DEF Reached, Own
  <2>5. Own(h)' # {} /\ h \in ToSet(page'.left) => h = h0' /\ page'.step = "remote"
    BY <1>4, <2>2, <2>3 DEF MeetOK, h0
  <2>6. (Busy' /\ h = h0' /\ page'.step = "copied") \/ Reached(h, 1)' => tmp'[h] # "partial"
    BY <1>4, <1>9, <2>2, <2>4 DEF MeetOK, Busy, h0
  <2>7. Reached(h, 2)' => \A v \in scripts'[h] : v.copy # "partial"
    BY <1>4, <2>1, <2>4 DEF MeetOK
  <2>8. Reached(h, 2)' /\ h \notin S'.unfit =>
          bin'[h] = "whole" \/ \E v \in Deploys(h)' : v.step = 2 /\ v.copy = "whole"
    <3> SUFFICES ASSUME Reached(h, 2)', h \notin S'.unfit, bin'[h] # "whole"
                 PROVE  \E v \in Deploys(h)' : v.step = 2 /\ v.copy = "whole"
      OBVIOUS
    <3>1. PICK v \in Deploys(h) : v.step = 2 /\ v.copy = "whole"
      BY <1>2, <1>4, <1>9, <2>4 DEF MeetOK
    <3>2. v # s
      BY <1>2, <1>9, <3>1 DEF Deploys
    <3> QED BY <2>1, <3>1, <3>2 DEF Deploys
  <2>9. Reached(h, 5)' /\ h \notin S'.unfit => cron'[h]
    BY <1>2, <1>4, <1>9, <2>4 DEF MeetOK
  <2>10. Reached(h, 6)' => DOMAIN files'[h] # {}
    BY <1>3, <1>4, <2>4 DEF MeetOK
  <2> QED BY <2>5, <2>6, <2>7, <2>8, <2>9, <2>10 DEF MeetOK
<1>10. ASSUME s.op = "deploy", s.step = 1, tmp[h] # "none", TakesOver(h, s), UNCHANGED <<tmp, cron, files>>
       PROVE  MeetOK(h)'
  <2>1. PICK u \in scripts'[h] :
          /\ u.op = s.op /\ u.no = s.no /\ u.step = 2 /\ u.copy = tmp[h]
          /\ \A v \in scripts'[h] \ {u} :
               v.copy \in {"none", "lost"} /\ \E t \in scripts[h] \ {s} : SameCommand(v, t)
    BY <1>10, TakesOverEffect
  <2>2. UNCHANGED <<page, shown>>
    BY <1>10 DEF TakesOver, pageVars
  <2>3. ASSUME NEW v \in Own(h)'
        PROVE  \E t \in Own(h) : t.step \in 1..6 /\ (v.step = t.step \/ (v.step = 2 /\ t.step = 1))
    BY <1>4, <1>10, <2>1, <2>2, <2>3 DEF Own, SameCommand, Scripts
  <2>4. Reached(h, 1)' \/ Reached(h, 2)' => Reached(h, 1)
    BY <2>2, <2>3 DEF Reached
  <2>5. (Reached(h, 5)' => Reached(h, 5)) /\ (Reached(h, 6)' => Reached(h, 6))
    BY <2>2, <2>3 DEF Reached
  <2>6. Own(h)' # {} /\ h \in ToSet(page'.left) => h = h0' /\ page'.step = "remote"
    BY <1>4, <2>2, <2>3 DEF MeetOK, h0
  <2>7. (Busy' /\ h = h0' /\ page'.step = "copied") \/ Reached(h, 1)' => tmp'[h] # "partial"
    BY <1>4, <1>10, <2>2, <2>4 DEF MeetOK, Busy, h0
  <2>8. Reached(h, 2)' => u.copy = "whole"
    BY <1>4, <1>10, <2>1, <2>4 DEF MeetOK, TypeInv, Contents
  <2>9. Reached(h, 2)' => \A v \in scripts'[h] : v.copy # "partial"
    BY <2>1, <2>8
  <2>10. Reached(h, 2)' => \E v \in Deploys(h)' : v.step = 2 /\ v.copy = "whole"
    BY <1>10, <2>1, <2>8 DEF Deploys
  <2>11. (Reached(h, 5)' /\ h \notin S'.unfit => cron'[h]) /\ (Reached(h, 6)' => DOMAIN files'[h] # {})
    BY <1>2, <1>4, <1>10, <2>5 DEF MeetOK
  <2> QED BY <2>6, <2>7, <2>9, <2>10, <2>11 DEF MeetOK
<1>11. ASSUME Fails(h, s), tmp'[h] = tmp[h] PROVE MeetOK(h)'
  BY <1>9, <1>11 DEF Fails
<1>12. ASSUME Install(h, s) PROVE MeetOK(h)'
  <2>1. ASSUME Exits(h, s, "red"), UNCHANGED bin PROVE MeetOK(h)'
    BY <1>9, <1>12, <2>1 DEF Install
  <2>2. ASSUME tmp[h] # "none", TakesOver(h, s) PROVE MeetOK(h)'
    <3>1. s.op = "deploy" /\ s.step = 1 /\ UNCHANGED <<tmp, cron, files>>
      BY <1>12 DEF Install
    <3> QED BY <1>10, <2>2, <3>1
  <2> QED BY <1>11, <1>12, <2>1, <2>2 DEF Install
<1>13. ASSUME InstallEnds(h, s) PROVE MeetOK(h)'
  <2>1. s.step = 2 /\ UNCHANGED <<tmp, cron>>
    BY <1>13 DEF InstallEnds
  <2>2. ASSUME GoesOn(h, s), bin' = [bin EXCEPT ![h] = "whole"] PROVE MeetOK(h)'
    <3>1. bin'[h] = "whole"
      BY <2>2 DEF TypeInv
    <3> QED BY <1>8, <2>1, <2>2, <3>1
  <2>3. ASSUME GoesOn(h, s), s.copy # "whole", UNCHANGED bin PROVE MeetOK(h)'
    BY <1>8, <2>1, <2>3
  <2> QED BY <1>11, <1>13, <2>1, <2>2, <2>3 DEF InstallEnds
<1>14. ASSUME RemoveTmp(h, s) PROVE MeetOK(h)'
  <2>1. s.step = 3 /\ GoesOn(h, s) /\ tmp'[h] = "none" /\ UNCHANGED <<bin, cron>>
    BY <1>14 DEF RemoveTmp, TypeInv
  <2> QED BY <1>8, <2>1
<1>15. ASSUME WriteCron(h, s) PROVE MeetOK(h)'
  <2>1. s.step = 4 /\ UNCHANGED <<tmp, bin>>
    BY <1>15 DEF WriteCron
  <2>2. ASSUME GoesOn(h, s), cron' = [cron EXCEPT ![h] = TRUE] PROVE MeetOK(h)'
    <3>1. cron'[h]
      BY <2>2 DEF TypeInv
    <3> QED BY <1>8, <2>1, <2>2, <3>1
  <2> QED BY <1>11, <1>15, <2>1, <2>2 DEF WriteCron
<1>16. ASSUME SmokeTest(h, s) PROVE MeetOK(h)'
  <2>1. s.step = 5 /\ UNCHANGED <<tmp, bin, cron>>
    BY <1>16 DEF SmokeTest
  <2>2. ASSUME GoesOn(h, s), StartCollects({h}, s.no, now) PROVE MeetOK(h)'
    <3>1. DOMAIN files'[h] # {}
      BY <2>2, CollectsStart
    <3> QED BY <1>8, <2>1, <2>2, <3>1
  <2>3. ASSUME Exits(h, s, "red") PROVE MeetOK(h)'
    BY <1>9, <2>1, <2>3
  <2> QED BY <1>11, <1>16, <2>1, <2>2, <2>3 DEF SmokeTest
<1>17. ASSUME SmokeTestEnds(h, s) PROVE MeetOK(h)'
  <2>1. s.step = 6 /\ Exits(h, s, "green") /\ UNCHANGED <<tmp, bin, cron>>
    BY <1>17 DEF SmokeTestEnds
  <2> QED BY <1>9, <2>1
<1>18. ASSUME RejectUninstall(h, s) PROVE MeetOK(h)'
  <2>1. s.op = "uninstall" /\ Exits(h, s, "red") /\ UNCHANGED <<tmp, bin, cron>>
    BY <1>18 DEF RejectUninstall
  <2> QED BY <1>9, <2>1
<1>19. MeetOK(h)'
  BY <1>1, <1>12, <1>13, <1>14, <1>15, <1>16, <1>17, <1>18 DEF Command
<1> QED BY <1>2, <1>7, <1>19 DEF MeetInv

LEMMA MeetStepKept ==
  ASSUME TypeInv, PageInv, OwnerInv, MeetInv, FileInv, [Next]_vars
  PROVE  MeetInv'
<1>1. S' = S /\ Hosts' = Hosts
  BY SiteIsKept
<1>2. ASSUME UNCHANGED <<pageVars, remoteVars>>,
             \A h \in Hosts : DOMAIN files[h] # {} => DOMAIN files'[h] # {}
      PROVE  MeetInv'
  BY <1>1, <1>2, MeetFrame DEF MeetInv, MeetOK, pageVars, remoteVars, Busy, h0
<1>3. ASSUME NEW op \in {"deploy", "uninstall", "pull"}, Open(op) PROVE MeetInv'
  <2>1. /\ page'.no = opened + 1 /\ page'.step # "copied" /\ UNCHANGED scripts
        /\ \A h \in Hosts : shown'[h] = ""
    BY <1>3, OpenEffect DEF remoteVars
  <2>2. ASSUME NEW h \in Hosts PROVE Own(h)' = {}
    <3>1. \A s \in scripts[h] : s \in Scripts /\ s.no <= opened /\ opened \in Nat
      BY DEF OwnerInv, TypeInv
    <3>2. \A s \in scripts[h] : s.no # opened + 1
      BY <3>1 DEF Scripts
    <3> QED BY <2>1, <3>2 DEF Own
  <2>3. \A h \in Hosts : \A n : ~Reached(h, n)'
    BY <2>1, <2>2 DEF Reached
  <2> QED BY <1>1, <2>1, <2>2, <2>3 DEF MeetInv, MeetOK
<1>4. CASE Tick
  <2>1. \A h \in Hosts : DOMAIN files[h] # {} => DOMAIN files'[h] # {}
    <3>1. PICK hs : StartCollects(hs, 0, now')
      BY <1>4 DEF Tick
    <3> QED BY <3>1, CollectsStart
  <2> QED BY <1>2, <1>4, <2>1 DEF Tick
<1>5. CASE UNCHANGED vars
  BY <1>2, <1>5 DEF vars, dataVars
<1>6. ASSUME NEW h \in Hosts, HostStep(h) PROVE MeetInv'
  BY <1>2, <1>6, HostStepFrame
<1> QED BY <1>3, <1>4, <1>5, <1>6, MeetPage, MeetScript DEF Next

-----------------------------------------------------------------------------
(* The data.                                                               *)

LEMMA Days ==
  ASSUME TypeInv, NEW n \in Nat
  PROVE  DayOf(n) \in Nat /\ DayOf(n) <= DayOf(n + 1) /\ DayOf(n + 1) \in Nat
<1>1. S.dayLength \in Nat \ {0}
  BY SiteFacts DEF TypeInv
<1> QED BY <1>1 DEF DayOf

(* Collectors that start, at a time that is today's.                       *)
LEMMA FileStart ==
  ASSUME TypeInv, FileInv, NEW hs, NEW kind, StartCollects(hs, kind, now'), S' = S,
         now' \in {now, now + 1}, due' \in [Hosts -> BOOLEAN], UNCHANGED <<pruned, local>>
  PROVE  FileInv'
<1>1. Hosts' = Hosts
  BY DEF Hosts
<1>2. \A ts : DayOf(ts)' = DayOf(ts')
  BY DEF DayOf
<1>3. /\ now' \in Nat /\ Today \in Nat /\ Today' \in Nat /\ Today <= Today'
      /\ Today' = DayOf(now')
  <2>1. now \in Nat
    BY DEF FileInv
  <2>2. Today = DayOf(now) /\ Today' = DayOf(now')
    BY DEF Today, DayOf
  <2> QED BY <2>1, <2>2, Days
<1>4. /\ files' = [g \in Hosts |-> files'[g]] /\ collects' = [g \in Hosts |-> collects'[g]]
      /\ \A g \in Hosts :
           DOMAIN files'[g] = DOMAIN files[g] \cup (IF g \in hs THEN {Today'} ELSE {})
      /\ \A g \in Hosts : \A c \in collects'[g] :
           \/ c \in collects[g]
           \/ g \in hs /\ c = [kind |-> kind, ts |-> now', left |-> Live(g), failed |-> FALSE]
  BY <1>3, CollectsStart
<1>5. ASSUME NEW h \in Hosts
      PROVE  DOMAIN files'[h] \subseteq 0..Today' /\ pruned'[h] \subseteq DOMAIN files'[h]
  BY <1>3, <1>4 DEF FileInv
<1>6. ASSUME NEW h \in Hosts, NEW c \in collects'[h] PROVE CollectOK(h, c)'
  <2>1. CASE c \in collects[h]
    BY <1>4, <2>1 DEF FileInv, CollectOK, DayOf
  <2>2. CASE h \in hs /\ c = [kind |-> kind, ts |-> now', left |-> Live(h), failed |-> FALSE]
    <3>1. c.ts = now' /\ c = [kind |-> c.kind, ts |-> c.ts, left |-> c.left, failed |-> c.failed]
      BY <2>2
    <3>2. DayOf(c.ts)' = Today'
      BY <3>1 DEF DayOf, Today
    <3> QED BY <1>4, <2>2, <3>1, <3>2 DEF CollectOK
  <2> QED BY <1>4, <2>1, <2>2
<1>7. \A f \in DOMAIN local' : \E h \in Hosts : f[1] = HostName[h] /\ f[2] \in DOMAIN files'[h]
  BY <1>4 DEF FileInv
<1> QED BY <1>1, <1>3, <1>4, <1>5, <1>6, <1>7 DEF FileInv

(* What was fetched of a host has a file there.                            *)
LEMMA FileFetched ==
  ASSUME FileInv, NEW h \in Hosts, NEW got, DOMAIN got \subseteq DOMAIN files[h], Fetched(h, got)
  PROVE  \A f \in DOMAIN local' :
           /\ f = <<f[1], f[2]>>
           /\ \E g \in Hosts : f[1] = HostName[g] /\ f[2] \in DOMAIN files[g]
<1> SUFFICES ASSUME NEW f \in DOMAIN local'
             PROVE  /\ f = <<f[1], f[2]>>
                    /\ \E g \in Hosts : f[1] = HostName[g] /\ f[2] \in DOMAIN files[g]
  OBVIOUS
<1>1. f \in DOMAIN local \/ \E d \in DOMAIN got : f = <<HostName[h], d>>
  <2>1. DOMAIN local' = DOMAIN local \cup {<<HostName[h], d>> : d \in DOMAIN got}
    BY LocalGrows
  <2> QED BY <2>1
<1> QED BY <1>1 DEF FileInv

LEMMA FilePage ==
  ASSUME TypeInv, PageInv, FileInv, PageStep \/ Cancel \/ UNCHANGED vars \/ \E op : Open(op)
  PROVE  FileInv'
<1>1. UNCHANGED <<site, now, due, files, collects, pruned>>
  BY DEF Open, PageStep, CopyBegins, CopyEnds, Launch, ConnectionLost, Pull, PullFails, Cancel,
         dataVars, clockVars, vars
<1>2. Hosts' = Hosts /\ Today' = Today /\ \A ts : DayOf(ts)' = DayOf(ts')
  BY <1>1 DEF Hosts, S, Today, DayOf
<1>3. Busy => h0 \in Hosts
  BY HeadAndTail DEF TypeInv, Busy, h0
<1>4. \/ UNCHANGED local
      \/ Busy /\ \E got : DOMAIN got \subseteq DOMAIN files[h0] /\ Fetched(h0, got)
  <2>1. CASE Pull
    <3>1. Busy
      BY <2>1 DEF Pull, PageInv, Underway
    <3> QED BY <2>1, <3>1 DEF Pull, Remote
  <2>2. CASE Busy /\ CutShort
    BY <2>2 DEF CutShort, Remote
  <2>3. CASE PullFails \/ Cancel
    BY <2>2, <2>3 DEF PullFails, Cancel, MayRefuse, MayFail
  <2> QED BY <2>1, <2>3 DEF Open, PageStep, CopyBegins, CopyEnds, Launch, ConnectionLost, vars
<1>5. \A f \in DOMAIN local' :
        /\ f = <<f[1], f[2]>>
        /\ \E g \in Hosts : f[1] = HostName[g] /\ f[2] \in DOMAIN files[g]
  <2>1. CASE UNCHANGED local
    BY <2>1 DEF FileInv
  <2> QED BY <1>3, <1>4, <2>1, FileFetched
<1> QED BY <1>1, <1>2, <1>5 DEF FileInv, CollectOK

(* A collector goes over its processes: its file is the one of its day.    *)
LEMMA FileCollect ==
  ASSUME FileInv, NEW h \in Hosts, NEW c \in collects[h], SampleNext(h, c) \/ CollectEnds(h, c)
  PROVE  FileInv'
<1>1. UNCHANGED <<site, now, due, pruned, local>>
  BY DEF SampleNext, CollectEnds, clockVars
<1>2. Hosts' = Hosts /\ Today' = Today /\ \A ts : DayOf(ts)' = DayOf(ts')
  BY <1>1 DEF Hosts, S, Today, DayOf
<1>3. /\ files' = [g \in Hosts |-> files'[g]] /\ \A g \in Hosts : DOMAIN files'[g] = DOMAIN files[g]
  BY HostStepFrame DEF HostStep, CollectStep
<1>4. \/ collects' = [collects EXCEPT ![h] = @ \ {c}]
      \/ \E e : /\ collects' = [collects EXCEPT ![h] = (@ \ {c}) \cup {e}]
                /\ e = Sampled(c, Min(c.left)) \/ e = [Sampled(c, Min(c.left)) EXCEPT !.failed = TRUE]
  BY Zenon DEF SampleNext, CollectEnds, Write, WriteFails, Passes
<1>5. CollectOK(h, c)
  BY DEF FileInv
<1>6. ASSUME NEW e, e = Sampled(c, Min(c.left)) \/ e = [Sampled(c, Min(c.left)) EXCEPT !.failed = TRUE]
      PROVE  CollectOK(h, e)
  <2>1. c = [kind |-> c.kind, ts |-> c.ts, left |-> c.left, failed |-> c.failed]
    BY <1>5 DEF CollectOK
  <2>2. e.ts = c.ts /\ e = [kind |-> e.kind, ts |-> e.ts, left |-> e.left, failed |-> e.failed]
    BY <1>6, <2>1 DEF Sampled
  <2> QED BY <1>5, <2>2 DEF CollectOK
<1>7. collects' = [g \in Hosts |-> collects'[g]]
  BY <1>4 DEF FileInv
<1>8. ASSUME NEW g \in Hosts, NEW e \in collects'[g] PROVE CollectOK(g, e)
  <2>1. e \in collects[g] \/ (g = h /\ (e = Sampled(c, Min(c.left))
                                        \/ e = [Sampled(c, Min(c.left)) EXCEPT !.failed = TRUE]))
    BY <1>4 DEF FileInv
  <2> QED BY <1>6, <2>1 DEF FileInv
<1>9. \A g \in Hosts : \A e \in collects'[g] : CollectOK(g, e)'
  BY <1>2, <1>3, <1>8 DEF CollectOK
<1> QED BY <1>1, <1>2, <1>3, <1>7, <1>9 DEF FileInv

LEMMA FileStepKept ==
  ASSUME TypeInv, PageInv, FileInv, [Next]_vars
  PROVE  FileInv'
<1>1. S' = S /\ Hosts' = Hosts
  BY SiteIsKept
<1>2. CASE Tick
  <2>1. due' \in [Hosts -> BOOLEAN]
    BY <1>2 DEF Tick
  <2>2. PICK hs : StartCollects(hs, 0, now')
    BY <1>2 DEF Tick
  <2> QED BY <1>1, <1>2, <2>1, <2>2, FileStart DEF Tick
<1>3. ASSUME UNCHANGED <<site, now, due, files, collects, pruned, local>> PROVE FileInv'
  BY <1>1, <1>3 DEF FileInv, CollectOK, Today, DayOf
<1>4. ASSUME NEW h \in Hosts, ScriptStep(h) PROVE FileInv'
  <2>1. UNCHANGED <<site, now, due, pruned, local>>
    BY <1>4, ScriptStepFrame
  <2>2. UNCHANGED <<files, collects>> \/ \E no : StartCollects({h}, no, now)
    BY <1>4 DEF ScriptStep, Install, InstallEnds, RemoveTmp, WriteCron, SmokeTest, SmokeTestEnds, RejectUninstall
  <2>3. ASSUME NEW no, StartCollects({h}, no, now) PROVE FileInv'
    BY <1>1, <2>1, <2>3, FileStart DEF FileInv
  <2> QED BY <1>3, <2>1, <2>2, <2>3
<1>5. ASSUME NEW h \in Hosts, Prune(h) PROVE FileInv'
  <2>1. UNCHANGED <<site, now, files, collects, local>>
    BY <1>5 DEF Prune
  <2>2. due' \in [Hosts -> BOOLEAN]
    BY <1>5 DEF Prune, FileInv
  <2>3. PICK gone \in SUBSET DOMAIN files[h] : pruned' = [pruned EXCEPT ![h] = @ \cup gone]
    BY <1>5 DEF Prune
  <2>4. pruned' = [g \in Hosts |-> pruned'[g]] /\ \A g \in Hosts : pruned'[g] \subseteq DOMAIN files[g]
    BY <2>3 DEF FileInv
  <2> QED BY <1>1, <2>1, <2>2, <2>4 DEF FileInv, CollectOK, Today, DayOf
<1>6. ASSUME NEW h \in Hosts, HostStep(h) PROVE FileInv'
  <2>1. ASSUME NEW p, Fork(h, p) \/ Exit(h, p) \/ Burn(h, p) PROVE FileInv'
    BY <1>3, <2>1 DEF Fork, Exit, Burn, dataVars, clockVars
  <2>2. CASE CollectStep(h)
    BY <1>6, <2>2, FileCollect DEF CollectStep
  <2> QED BY <1>5, <1>6, <2>1, <2>2 DEF HostStep
<1> QED BY <1>2, <1>4, <1>6, FilePage DEF Next

-----------------------------------------------------------------------------
(* What was fetched.                                                       *)

IsSequence(q) == \E X : q \in Seq(X)

DataInv ==
  /\ \A h \in Hosts : \A d \in DOMAIN files[h] : IsSequence(files[h][d])
  /\ \A f \in DOMAIN local :
       /\ IsSequence(local[f])
       /\ \E h \in Hosts : /\ HostName[h] = f[1] /\ f[2] \in DOMAIN files[h]
                          /\ Begins(local[f], files[h][f[2]])

(* The encoder writes a line, or changes an unfinished last one into       *)
(* another that is no record.                                              *)
LEMMA EncodeLines ==
  ASSUME NEW file, IsSequence(file), NEW line, NEW new, new = Encode(file, line)
  PROVE  /\ Len(file) \in Nat /\ DOMAIN file = 1 .. Len(file)
         /\ IsSequence(new) /\ DOMAIN new = 1 .. Len(new)
         /\ \/ /\ Len(file) # 0 /\ file[Len(file)] = Torn
               /\ Len(new) = Len(file) /\ new[Len(file)] \in {Torn, Garbled}
               /\ \A i \in 1 .. (Len(file) - 1) : new[i] = file[i]
            \/ /\ Len(new) = Len(file) + 1 /\ new[Len(file) + 1] = line
               /\ \A i \in 1 .. Len(file) : new[i] = file[i]
<1>1. PICK X : file \in Seq(X)
  BY DEF IsSequence
<1> DEFINE Y == X \cup {line, Torn, Garbled}
           n == Len(file)
<1>2. file \in Seq(Y) /\ n \in Nat /\ DOMAIN file = 1 .. n
  BY <1>1
<1>3. CASE file # <<>> /\ Last(file) = Torn
  <2> DEFINE front == SubSeq(file, 1, n - 1)
             x == IF line = Torn THEN Torn ELSE Garbled
  <2>1. n \in Nat \ {0} /\ file[n] = Torn
    BY <1>2, <1>3, EmptySeq DEF Last
  <2>2. \A i \in 1 .. (n - 1) : file[i] \in Y
    BY <1>2, <2>1
  <2>3. front \in Seq(Y) /\ Len(front) = n - 1 /\ \A i \in 1 .. (n - 1) : front[i] = file[i]
    <3> HIDE DEF Y, n
    <3>1. 1 \in Int /\ n - 1 \in Int
      BY <2>1
    <3>2. /\ front \in Seq(Y) /\ Len(front) = IF 1 <= n - 1 THEN (n - 1) - 1 + 1 ELSE 0
          /\ \A i \in 1 .. ((n - 1) - 1 + 1) : front[i] = file[1 + i - 1]
      BY <2>2, <3>1, SubSeqProperties
    <3> HIDE DEF front
    <3>3. (n - 1) - 1 + 1 = n - 1 /\ \A i \in 1 .. (n - 1) : 1 + i - 1 = i
      BY <2>1
    <3> QED BY <2>1, <3>2, <3>3
  <2>4. new = Append(front, x)
    BY <1>3 DEF Encode, Front
  <2>5. x \in Y /\ x \in {Torn, Garbled}
    OBVIOUS
  <2> HIDE DEF front, x
  <2>6. /\ new \in Seq(Y) /\ Len(new) = n /\ new[n] = x
        /\ \A i \in 1 .. (n - 1) : new[i] = file[i]
    BY <2>1, <2>3, <2>4, <2>5, AppendProperties
  <2>7. IsSequence(new) /\ DOMAIN new = 1 .. Len(new)
    BY <2>6 DEF IsSequence
  <2> QED BY <1>2, <2>1, <2>5, <2>6, <2>7
<1>4. CASE ~(file # <<>> /\ Last(file) = Torn)
  <2>1. new = Append(file, line)
    BY <1>4 DEF Encode
  <2>2. /\ new \in Seq(Y) /\ Len(new) = n + 1 /\ new[n + 1] = line
        /\ \A i \in 1 .. n : new[i] = file[i]
    BY <1>2, <2>1, AppendProperties
  <2>3. IsSequence(new) /\ DOMAIN new = 1 .. Len(new)
    BY <2>2 DEF IsSequence
  <2> QED BY <1>2, <2>2, <2>3
<1> QED BY <1>3, <1>4

(* The encoder changes no line but an unfinished last one, which it only   *)
(* makes longer.                                                           *)
LEMMA EncodeKeeps ==
  ASSUME NEW file, IsSequence(file), NEW line
  PROVE  /\ IsSequence(Encode(file, line))
         /\ \A got : IsSequence(got) /\ Begins(got, file) => Begins(got, Encode(file, line))
<1> DEFINE new == Encode(file, line)
           n == Len(file)
<1>1. /\ n \in Nat /\ IsSequence(new)
      /\ \/ /\ n # 0 /\ file[n] = Torn /\ Len(new) = n /\ new[n] \in {Torn, Garbled}
            /\ \A i \in 1 .. (n - 1) : new[i] = file[i]
         \/ Len(new) = n + 1 /\ \A i \in 1 .. n : new[i] = file[i]
  BY EncodeLines
<1> HIDE DEF new, n
<1>2. ASSUME NEW got, IsSequence(got), Begins(got, file) PROVE Begins(got, new)
  <2> DEFINE m == Len(got)
  <2>1. m \in Nat /\ m <= n
    BY <1>2 DEF IsSequence, Begins, n
  <2>2. \A i \in 1 .. m : got[i] = file[i] \/ (i = m /\ got[i] = Torn /\ file[i] = Garbled)
    BY <1>2 DEF Begins
  <2> HIDE DEF m
  <2>3. ASSUME NEW i \in 1 .. m
        PROVE  got[i] = new[i] \/ (i = m /\ got[i] = Torn /\ new[i] = Garbled)
    <3>1. i = n => i = m
      BY <1>1, <2>1
    <3>2. i # n => i \in 1 .. (n - 1)
      BY <1>1, <2>1
    <3>3. i \in 1 .. n
      BY <1>1, <2>1
    <3> QED BY <1>1, <2>2, <3>1, <3>2, <3>3
  <2>4. Len(new) \in Nat /\ m <= Len(new)
    BY <1>1, <2>1
  <2> QED BY <2>3, <2>4 DEF Begins, m
<1> QED BY <1>1, <1>2 DEF new

(* The files of the hosts only grow: lines are written, files begun.       *)
LEMMA FilesGrow ==
  ASSUME DataInv, UNCHANGED <<site, local>>,
         \A h \in Hosts : \A d \in DOMAIN files[h] :
           /\ d \in DOMAIN files'[h]
           /\ \/ files'[h][d] = files[h][d]
              \/ \E line : files'[h][d] = Encode(files[h][d], line),
         \A h \in Hosts : \A d \in DOMAIN files'[h] :
           d \in DOMAIN files[h] \/ files'[h][d] = <<>>
  PROVE  DataInv'
<1>1. Hosts' = Hosts
  BY DEF Hosts, S
<1>2. ASSUME NEW h \in Hosts, NEW d \in DOMAIN files'[h] PROVE IsSequence(files'[h][d])
  <2>1. IsSequence(<<>>)
    BY EmptySeq DEF IsSequence
  <2>2. d \in DOMAIN files[h] => IsSequence(files[h][d])
    BY DEF DataInv
  <2> QED BY <2>1, <2>2, EncodeKeeps
<1>3. ASSUME NEW f \in DOMAIN local
      PROVE  /\ IsSequence(local[f])
             /\ \E h \in Hosts : /\ HostName[h] = f[1] /\ f[2] \in DOMAIN files'[h]
                                /\ Begins(local[f], files'[h][f[2]])
  <2>1. PICK h \in Hosts : /\ HostName[h] = f[1] /\ f[2] \in DOMAIN files[h]
                           /\ Begins(local[f], files[h][f[2]])
    BY DEF DataInv
  <2>2. IsSequence(local[f]) /\ IsSequence(files[h][f[2]])
    BY <2>1 DEF DataInv
  <2>3. Begins(local[f], files'[h][f[2]])
    BY <2>1, <2>2, EncodeKeeps
  <2> QED BY <2>1, <2>2, <2>3
<1> QED BY <1>1, <1>2, <1>3 DEF DataInv

(* A whole file, or its beginning, is fetched.                             *)
LEMMA Beginning ==
  ASSUME NEW file, IsSequence(file), NEW n \in 0 .. Len(file)
  PROVE  IsSequence(SubSeq(file, 1, n)) /\ Begins(SubSeq(file, 1, n), file)
         /\ Begins(file, file)
<1>1. PICK X : file \in Seq(X)
  BY DEF IsSequence
<1>2. \A i \in 1 .. n : file[i] \in X
  BY <1>1
<1>3. /\ SubSeq(file, 1, n) \in Seq(X) /\ Len(SubSeq(file, 1, n)) = n
      /\ \A i \in 1 .. n : SubSeq(file, 1, n)[i] = file[i]
  BY <1>1, <1>2
<1> QED BY <1>1, <1>3 DEF IsSequence, Begins

LEMMA FetchedBegins ==
  ASSUME DataInv, UNCHANGED <<site, files>>, NEW h \in Hosts, NEW got, Fetched(h, got),
         DOMAIN got \subseteq DOMAIN files[h],
         \A d \in DOMAIN got : IsSequence(got[d]) /\ Begins(got[d], files[h][d])
  PROVE  DataInv'
<1>1. Hosts' = Hosts
  BY DEF Hosts, S
<1>2. DOMAIN local' = DOMAIN local \cup {<<HostName[h], d>> : d \in DOMAIN got}
  BY LocalGrows
<1>3. \A f \in DOMAIN local' :
        local'[f] = IF f[1] = HostName[h] /\ f[2] \in DOMAIN got THEN got[f[2]] ELSE local[f]
  BY DEF Fetched
<1>4. ASSUME NEW f \in DOMAIN local'
      PROVE  /\ IsSequence(local'[f])
             /\ \E g \in Hosts : /\ HostName[g] = f[1] /\ f[2] \in DOMAIN files[g]
                                /\ Begins(local'[f], files[g][f[2]])
  <2>1. CASE f[1] = HostName[h] /\ f[2] \in DOMAIN got
    BY <1>3, <2>1
  <2>2. CASE ~(f[1] = HostName[h] /\ f[2] \in DOMAIN got)
    <3>1. f \in DOMAIN local
      BY <1>2, <2>2
    <3>2. local'[f] = local[f]
      BY <1>3, <2>2
    <3> QED BY <3>1, <3>2 DEF DataInv
  <2> QED BY <2>1, <2>2
<1> QED BY <1>1, <1>4 DEF DataInv

LEMMA PullBegins ==
  ASSUME TypeInv, PageInv, DataInv, Pull \/ (Busy /\ CutShort /\ UNCHANGED <<site, files>>)
  PROVE  DataInv'
<1>1. Busy /\ UNCHANGED <<site, files>>
  BY DEF Pull, PageInv, Underway, dataVars
<1>2. h0 \in Hosts
  BY <1>1, HeadAndTail DEF TypeInv, Busy, h0
<1>3. ASSUME NEW d \in DOMAIN files[h0]
      PROVE  /\ IsSequence(files[h0][d]) /\ Begins(files[h0][d], files[h0][d])
             /\ \A n \in 0 .. Len(files[h0][d]) :
                  /\ IsSequence(SubSeq(files[h0][d], 1, n))
                  /\ Begins(SubSeq(files[h0][d], 1, n), files[h0][d])
  <2>1. IsSequence(files[h0][d])
    BY <1>2 DEF DataInv
  <2>2. 0 \in 0 .. Len(files[h0][d])
    BY <2>1 DEF IsSequence
  <2> QED BY <2>1, <2>2, Beginning
<1>4. CASE Pull
  <2> DEFINE got == [d \in Remote(h0) |-> files[h0][d]]
  <2>1. Fetched(h0, got)
    BY <1>4 DEF Pull
  <2>2. DOMAIN got \subseteq DOMAIN files[h0] /\ \A d \in DOMAIN got : got[d] = files[h0][d]
    BY DEF Remote
  <2> HIDE DEF got
  <2> QED BY <1>1, <1>2, <1>3, <2>1, <2>2, FetchedBegins
<1>5. CASE CutShort
  <2>1. PICK days \in SUBSET Remote(h0) : \E last \in days \cup {-1} :
          \E n \in 0..(IF last = -1 THEN 0 ELSE Len(files[h0][last])) :
            Fetched(h0, [d \in days |-> IF d = last THEN SubSeq(files[h0][d], 1, n) ELSE files[h0][d]])
    BY <1>5 DEF CutShort
  <2>2. PICK last \in days \cup {-1} :
          \E n \in 0..(IF last = -1 THEN 0 ELSE Len(files[h0][last])) :
            Fetched(h0, [d \in days |-> IF d = last THEN SubSeq(files[h0][d], 1, n) ELSE files[h0][d]])
    BY <2>1
  <2>3. PICK n \in 0..(IF last = -1 THEN 0 ELSE Len(files[h0][last])) :
          Fetched(h0, [d \in days |-> IF d = last THEN SubSeq(files[h0][d], 1, n) ELSE files[h0][d]])
    BY <2>2
  <2> DEFINE got == [d \in days |-> IF d = last THEN SubSeq(files[h0][d], 1, n) ELSE files[h0][d]]
  <2>4. days \subseteq DOMAIN files[h0]
    BY DEF Remote
  <2>5. ASSUME NEW d \in days PROVE IsSequence(got[d]) /\ Begins(got[d], files[h0][d])
    <3>1. CASE d # last
      BY <1>3, <2>4, <3>1
    <3>2. CASE d = last
      <4>1. 0 \in 0 .. Len(files[h0][d])
        BY <1>3, <2>4 DEF IsSequence
      <4>2. n \in 0 .. Len(files[h0][d])
        BY <2>3, <3>2, <4>1
      <4> QED BY <1>3, <2>4, <3>2, <4>2
    <3> QED BY <3>1, <3>2
  <2>6. Fetched(h0, got) /\ DOMAIN got = days
    BY <2>3
  <2> HIDE DEF got
  <2> QED BY <1>1, <1>2, <2>4, <2>5, <2>6, FetchedBegins
<1> QED BY <1>4, <1>5

LEMMA DataStepKept ==
  ASSUME TypeInv, PageInv, FileInv, DataInv, [Next]_vars
  PROVE  DataInv'
<1>1. CASE UNCHANGED <<site, files, local>>
  BY <1>1 DEF DataInv, Hosts, S
<1>2. ASSUME UNCHANGED <<site, local>>, NEW hs, NEW kind, NEW ts, StartCollects(hs, kind, ts)
      PROVE  DataInv'
  <2>1. \A g \in Hosts : files'[g] = IF g \in hs THEN WithDay(files[g], DayOf(ts)) ELSE files[g]
    BY <1>2, Zenon DEF StartCollects
  <2>2. ASSUME NEW g \in Hosts
        PROVE  /\ \A d \in DOMAIN files[g] : d \in DOMAIN files'[g] /\ files'[g][d] = files[g][d]
               /\ \A d \in DOMAIN files'[g] : d \in DOMAIN files[g] \/ files'[g][d] = <<>>
    <3>1. CASE g \in hs
      <4>1. files'[g] = WithDay(files[g], DayOf(ts))
        BY <2>1, <3>1
      <4> DEFINE old == files[g]
                 new == files'[g]
      <4>2. PICK day : new = WithDay(old, day)
        BY <4>1
      <4> HIDE DEF old, new
      <4>3. /\ \A d \in DOMAIN old : d \in DOMAIN new /\ new[d] = old[d]
            /\ \A d \in DOMAIN new : d \in DOMAIN old \/ new[d] = <<>>
        BY <4>2 DEF WithDay
      <4> QED BY <4>3 DEF old, new
    <3>2. CASE g \notin hs
      BY <2>1, <3>2
    <3> QED BY <3>1, <3>2
  <2> QED BY <1>2, <2>2, FilesGrow
<1>3. CASE Tick
  BY <1>2, <1>3 DEF Tick
<1>4. ASSUME NEW h \in Hosts, ScriptStep(h) PROVE DataInv'
  <2>1. UNCHANGED <<site, local>>
    BY <1>4, ScriptStepFrame
  <2>2. UNCHANGED files \/ \E no : StartCollects({h}, no, now)
    BY <1>4 DEF ScriptStep, Install, InstallEnds, RemoveTmp, WriteCron, SmokeTest, SmokeTestEnds, RejectUninstall
  <2> QED BY <1>1, <1>2, <2>1, <2>2
<1>5. ASSUME NEW h \in Hosts, HostStep(h) PROVE DataInv'
  <2>1. UNCHANGED <<site, local>>
    BY <1>5, HostStepFrame
  <2>2. ASSUME NEW d, NEW line, files' = [files EXCEPT ![h][d] = Encode(@, line)] PROVE DataInv'
    <3>1. files' = [files EXCEPT ![h] = [files[h] EXCEPT ![d] = Encode(files[h][d], line)]]
      BY <2>2
    <3>2. /\ files'[h] = [files[h] EXCEPT ![d] = Encode(files[h][d], line)]
          /\ \A g \in Hosts \ {h} : files'[g] = files[g]
      BY <3>1 DEF FileInv
    <3>3. /\ DOMAIN files'[h] = DOMAIN files[h]
          /\ \A e \in DOMAIN files[h] :
               files'[h][e] = IF e = d THEN Encode(files[h][e], line) ELSE files[h][e]
      BY <3>2
    <3> QED BY <2>1, <3>2, <3>3, FilesGrow
  <2> QED BY <1>1, <1>5, <2>1, <2>2, LineWritten
<1>6. CASE PageStep \/ Cancel
  <2>1. UNCHANGED <<site, files>>
    BY <1>6 DEF PageStep, CopyBegins, CopyEnds, Launch, ConnectionLost, Pull, PullFails, Cancel, dataVars
  <2>2. UNCHANGED local \/ Pull \/ (Busy /\ CutShort)
    BY <1>6 DEF PageStep, CopyBegins, CopyEnds, Launch, ConnectionLost, PullFails, Cancel,
                   MayRefuse, MayFail
  <2> QED BY <1>1, <2>1, <2>2, PullBegins
<1>7. CASE UNCHANGED vars \/ \E op : Open(op)
  BY <1>1, <1>7 DEF vars, Open, dataVars
<1> QED BY <1>3, <1>4, <1>5, <1>6, <1>7 DEF Next

-----------------------------------------------------------------------------
(* Sums.                                                                   *)

(* What a sum makes of a set, from what it makes of smaller ones.          *)
Adds(f, s, sums) ==
  IF s = {} THEN 0 ELSE LET x == CHOOSE x \in s : TRUE IN f[x] + sums[s \ {x}]

(* Up to any size of the sets there is a function that sums.               *)
HasSums(f, I, n) ==
  \E sums : sums = [s \in SUBSET I |-> IF Cardinality(s) <= n THEN Adds(f, s, sums) ELSE 0]

LEMMA SumsUpTo ==
  ASSUME NEW f, NEW I, IsFiniteSet(I), NEW n \in Nat
  PROVE  HasSums(f, I, n)
<1> DEFINE Has(m) == HasSums(f, I, m)
           Bad == {m \in Nat : ~Has(m)}
<1>1. \A s \in SUBSET I : IsFiniteSet(s) /\ Cardinality(s) \in Nat
  BY FS_Subset, FS_CardinalityType
<1>2. Has(0)
  <2> DEFINE sums == [s \in SUBSET I |-> 0]
  <2>1. \A s \in SUBSET I : Cardinality(s) <= 0 => s = {}
    BY <1>1, FS_EmptySet
  <2>2. sums = [s \in SUBSET I |-> IF Cardinality(s) <= 0 THEN Adds(f, s, sums) ELSE 0]
    BY <2>1 DEF Adds
  <2> QED BY <2>2 DEF HasSums
<1>3. ASSUME NEW m \in Nat, Has(m) PROVE Has(m + 1)
  <2>1. PICK old : old = [s \in SUBSET I |-> IF Cardinality(s) <= m THEN Adds(f, s, old) ELSE 0]
    BY <1>3 DEF HasSums
  <2> DEFINE sums == [s \in SUBSET I |-> IF Cardinality(s) <= m + 1 THEN Adds(f, s, old) ELSE 0]
  <2>2. ASSUME NEW s \in SUBSET I, Cardinality(s) <= m PROVE sums[s] = old[s]
    <3>1. Cardinality(s) <= m + 1
      BY <1>1, <2>2
    <3> QED BY <2>1, <2>2, <3>1
  <2>3. ASSUME NEW s \in SUBSET I, Cardinality(s) <= m + 1 PROVE Adds(f, s, old) = Adds(f, s, sums)
    <3>1. CASE s = {}
      BY <3>1 DEF Adds
    <3>2. CASE s # {}
      <4> DEFINE x == CHOOSE x \in s : TRUE
      <4>1. x \in s
        BY <3>2
      <4>2. s \ {x} \in SUBSET I /\ Cardinality(s \ {x}) = Cardinality(s) - 1
        BY <1>1, <4>1, FS_RemoveElement
      <4>3. Cardinality(s \ {x}) <= m
        BY <1>1, <2>3, <4>2
      <4>4. sums[s \ {x}] = old[s \ {x}]
        BY <2>2, <4>2, <4>3
      <4> QED BY <3>2, <4>4 DEF Adds
    <3> QED BY <3>1, <3>2
  <2>4. sums = [s \in SUBSET I |-> IF Cardinality(s) <= m + 1 THEN Adds(f, s, sums) ELSE 0]
    BY <2>3
  <2> QED BY <2>4 DEF HasSums
<1>4. Bad = {}
  <2> SUFFICES ASSUME Bad # {} PROVE FALSE
    OBVIOUS
  <2>1. PICK m \in Bad : \A k \in Bad : ~(<<k, m>> \in OpToRel(<, Nat))
    BY NatLessThanWellFounded, WFMin
  <2>2. m \in Nat /\ ~Has(m) /\ m # 0
    BY <1>2, <2>1
  <2>3. m - 1 \in Nat /\ (m - 1) + 1 = m
    BY <2>2
  <2>4. <<m - 1, m>> \in OpToRel(<, Nat)
    BY <2>2, <2>3 DEF OpToRel
  <2>5. Has(m - 1)
    BY <2>1, <2>3, <2>4
  <2> HIDE DEF Has
  <2> QED BY <1>3, <2>2, <2>3, <2>5
<1> QED BY <1>4

(* SumFunctionOnSet adds up, for finite sets.                              *)
LEMMA SumsExist ==
  ASSUME NEW f, NEW I, IsFiniteSet(I)
  PROVE  \E sums : /\ \A s \in SUBSET I : sums[s] = Adds(f, s, sums)
                   /\ SumFunctionOnSet(f, I) = sums[I]
<1> DEFINE It == CHOOSE h : h = [s \in SUBSET I |-> Adds(f, s, h)]
           n == Cardinality(I)
<1>1. n \in Nat /\ \A s \in SUBSET I : Cardinality(s) <= n
  BY FS_CardinalityType, FS_Subset
<1>2. PICK sums : sums = [s \in SUBSET I |-> IF Cardinality(s) <= n THEN Adds(f, s, sums) ELSE 0]
  <2>1. HasSums(f, I, n)
    BY <1>1, SumsUpTo
  <2> QED BY <2>1 DEF HasSums
<1>3. sums = [s \in SUBSET I |-> Adds(f, s, sums)]
  BY <1>1, <1>2
<1>4. It = [s \in SUBSET I |-> Adds(f, s, It)]
  BY <1>3
<1>5. SumFunctionOnSet(f, I) = It[I]
  BY DEF SumFunctionOnSet, FoldFunctionOnSet, MapThenFoldSet, Adds
<1> HIDE DEF It
<1>6. \A s \in SUBSET I : It[s] = Adds(f, s, It)
  BY <1>4
<1> QED BY <1>5, <1>6

(* If every element has a share of its own that is worth its value, the    *)
(* sum is worth no more than the shares together.                          *)
LEMMA SumOfShares ==
  ASSUME NEW I, IsFiniteSet(I), NEW f, NEW share, NEW U, IsFiniteSet(U),
         \A i \in I : share[i] \subseteq U /\ f[i] \in Nat /\ f[i] <= Cardinality(share[i]),
         \A i, j \in I : i # j => share[i] \cap share[j] = {}
  PROVE  /\ SumFunctionOnSet(f, I) \in Nat
         /\ SumFunctionOnSet(f, I) <= Cardinality(UNION {share[i] : i \in I})
<1> DEFINE All(s) == UNION {share[i] : i \in s}
<1>1. PICK sums : /\ \A s \in SUBSET I : sums[s] = Adds(f, s, sums)
                  /\ SumFunctionOnSet(f, I) = sums[I]
  BY SumsExist
<1> DEFINE Fits(s) == sums[s] \in Nat /\ sums[s] <= Cardinality(All(s))
           Bad == {n \in Nat : \E s \in SUBSET I : Cardinality(s) = n /\ ~Fits(s)}
<1>2. \A s \in SUBSET I : /\ IsFiniteSet(s) /\ Cardinality(s) \in Nat
                          /\ IsFiniteSet(All(s)) /\ Cardinality(All(s)) \in Nat
  <2>1. \A s \in SUBSET I : All(s) \subseteq U
    OBVIOUS
  <2> QED BY <2>1, FS_Subset, FS_CardinalityType
<1>3. Bad = {}
  <2> SUFFICES ASSUME Bad # {} PROVE FALSE
    OBVIOUS
  <2>1. PICK n \in Bad : \A k \in Bad : ~(<<k, n>> \in OpToRel(<, Nat))
    BY NatLessThanWellFounded, WFMin
  <2>2. PICK s \in SUBSET I : Cardinality(s) = n /\ ~Fits(s)
    BY <2>1
  <2>3. s # {}
    <3> SUFFICES ASSUME s = {} PROVE FALSE
      OBVIOUS
    <3>1. sums[s] = 0
      BY <1>1 DEF Adds
    <3>2. Cardinality(All(s)) \in Nat
      BY <1>2
    <3> HIDE DEF All
    <3> QED BY <2>2, <3>1, <3>2
  <2>4. PICK x \in s : sums[s] = f[x] + sums[s \ {x}]
    <3>1. sums[s] = Adds(f, s, sums)
      BY <1>1
    <3>2. (CHOOSE x \in s : TRUE) \in s
      BY <2>3
    <3> QED BY <2>3, <3>1, <3>2 DEF Adds
  <2> DEFINE rest == s \ {x}
  <2>5. rest \in SUBSET I /\ Cardinality(rest) = n - 1 /\ Cardinality(rest) \in Nat
    BY <1>2, <2>2, FS_RemoveElement
  <2>6. Fits(rest)
    <3>1. <<n - 1, n>> \in OpToRel(<, Nat)
      BY <2>1, <2>5 DEF OpToRel
    <3>2. n - 1 \notin Bad
      BY <2>1, <3>1
    <3> HIDE DEF Fits, rest
    <3> QED BY <2>5, <3>2
  <2>7. Cardinality(All(s)) = Cardinality(share[x]) + Cardinality(All(rest))
    <3> DEFINE mine == share[x]
               others == All(rest)
    <3>1. All(s) = mine \cup others /\ mine \cap others = {}
      OBVIOUS
    <3>2. IsFiniteSet(mine) /\ IsFiniteSet(others)
      BY <1>2, <2>5, FS_Subset
    <3> HIDE DEF mine, others
    <3>3. Cardinality(mine \cup others) = Cardinality(mine) + Cardinality(others)
      <4>1. Cardinality(mine \cup others)
              = Cardinality(mine) + Cardinality(others) - Cardinality(mine \cap others)
        BY <3>2, FS_Union
      <4>2. Cardinality(mine \cap others) = 0
        BY <3>1, FS_EmptySet
      <4>3. Cardinality(mine) \in Nat /\ Cardinality(others) \in Nat
        BY <3>2, FS_CardinalityType
      <4> QED BY <4>1, <4>2, <4>3
    <3>4. Cardinality(All(s)) = Cardinality(mine) + Cardinality(others)
      BY <3>1, <3>3
    <3> QED BY <3>4 DEF mine, others
  <2>8. f[x] \in Nat /\ f[x] <= Cardinality(share[x]) /\ Cardinality(share[x]) \in Nat
    BY FS_Subset, FS_CardinalityType
  <2>9. Fits(s)
    <3>1. Cardinality(All(rest)) \in Nat
      BY <1>2, <2>5
    <3>2. sums[rest] \in Nat /\ sums[rest] <= Cardinality(All(rest))
      BY <2>6
    <3> HIDE DEF All, rest
    <3> QED BY <2>4, <2>7, <2>8, <3>1, <3>2 DEF rest
  <2> QED BY <2>2, <2>9
<1>4. Fits(I)
  <2>1. I \in SUBSET I /\ Cardinality(I) \in Nat
    BY <1>2
  <2> HIDE DEF Fits
  <2> QED BY <1>3, <2>1
<1> QED BY <1>1, <1>4

(* The same for the services of a report: what they are charged together   *)
(* is no more than the shares of the records.                              *)
LEMMA ServicesShare ==
  ASSUME NEW records, IsFiniteSet(DOMAIN records), NEW share, NEW U, IsFiniteSet(U),
         \A i \in DOMAIN records :
           /\ share[i] \subseteq U /\ compute_delta(records, i) \in Nat
           /\ compute_delta(records, i) <= Cardinality(share[i]),
         \A i, j \in DOMAIN records : i # j => share[i] \cap share[j] = {}
  PROVE  SumFunction(aggregate_by_service(records)) <= Cardinality(U)
<1> DEFINE I == DOMAIN records
           key == [i \in I |-> normalize_key(records[i])]
           delta == [i \in I |-> compute_delta(records, i)]
           Of(k) == {i \in I : key[i] = k}
           K == Range(key)
           charged == [k \in K |-> SumFunctionOnSet(delta, Of(k))]
           shares == [k \in K |-> UNION {share[i] : i \in Of(k)}]
<1>1. aggregate_by_service(records) = charged
  BY DEF aggregate_by_service
<1>2. IsFiniteSet(K)
  <2>1. key \in Surjection(I, K)
    BY DEF Surjection, Range
  <2> HIDE DEF key, K
  <2> QED BY <2>1, FS_Surjection
<1>3. \A i \in I : /\ share[i] \subseteq U /\ delta[i] \in Nat
                   /\ delta[i] <= Cardinality(share[i])
  OBVIOUS
<1> HIDE DEF delta, key, K
<1>4. ASSUME NEW k \in K
      PROVE  /\ charged[k] \in Nat /\ charged[k] <= Cardinality(shares[k])
             /\ shares[k] \subseteq U
  <2>1. IsFiniteSet(Of(k)) /\ Of(k) \subseteq I
    BY FS_Subset
  <2>2. \A i \in Of(k) : /\ share[i] \subseteq U /\ delta[i] \in Nat
                         /\ delta[i] <= Cardinality(share[i])
    BY <1>3, <2>1
  <2>3. \A i, j \in Of(k) : i # j => share[i] \cap share[j] = {}
    BY <2>1
  <2> HIDE DEF Of, I
  <2>4. /\ SumFunctionOnSet(delta, Of(k)) \in Nat
        /\ SumFunctionOnSet(delta, Of(k)) <= Cardinality(UNION {share[i] : i \in Of(k)})
    BY <2>1, <2>2, <2>3, SumOfShares
  <2>5. UNION {share[i] : i \in Of(k)} \subseteq U
    BY <2>2
  <2> QED BY <2>4, <2>5
<1>5. \A k, l \in K : k # l => shares[k] \cap shares[l] = {}
  <2> SUFFICES ASSUME NEW k \in K, NEW l \in K, k # l, NEW x \in shares[k], x \in shares[l]
               PROVE  FALSE
    OBVIOUS
  <2>1. PICK i \in Of(k) : x \in share[i]
    OBVIOUS
  <2>2. PICK j \in Of(l) : x \in share[j]
    OBVIOUS
  <2>3. i # j /\ i \in I /\ j \in I
    OBVIOUS
  <2> QED BY <2>1, <2>2, <2>3
<1> HIDE DEF charged, shares
<1>6. /\ SumFunctionOnSet(charged, K) \in Nat
      /\ SumFunctionOnSet(charged, K) <= Cardinality(UNION {shares[k] : k \in K})
  BY <1>2, <1>4, <1>5, SumOfShares
<1>7. UNION {shares[k] : k \in K} \subseteq U
  BY <1>4
<1>8. /\ Cardinality(UNION {shares[k] : k \in K}) <= Cardinality(U)
      /\ Cardinality(UNION {shares[k] : k \in K}) \in Nat /\ Cardinality(U) \in Nat
  BY <1>7, FS_Subset, FS_CardinalityType
<1>9. SumFunction(aggregate_by_service(records)) = SumFunctionOnSet(charged, K)
  <2>1. DOMAIN charged = K
    BY DEF charged
  <2> QED BY <1>1, <2>1 DEF SumFunction
<1> QED BY <1>6, <1>8, <1>9

-----------------------------------------------------------------------------
(* The records of a host, in the order they were written.                  *)

IsRecord(dir, at) ==
  /\ at = <<at[1], at[2]>> /\ at[1] \in DOMAIN dir /\ at[2] \in DOMAIN dir[at[1]]
  /\ dir[at[1]][at[2]] \notin {Torn, Garbled}

LEMMA RecordsOf ==
  ASSUME NEW dir
  PROVE  \A at : /\ at \in DOMAIN load_dir(dir) <=> IsRecord(dir, at)
                 /\ IsRecord(dir, at) => load_dir(dir)[at] = dir[at[1]][at[2]]
<1> DEFINE lines == UNION {{<<d, i>> : i \in DOMAIN dir[d]} : d \in DOMAIN dir}
<1>1. \A at : at \in lines <=> /\ at = <<at[1], at[2]>> /\ at[1] \in DOMAIN dir
                               /\ at[2] \in DOMAIN dir[at[1]]
  OBVIOUS
<1>2. load_dir(dir) = [at \in {l \in lines : dir[l[1]][l[2]] \notin {Torn, Garbled}} |->
                         dir[at[1]][at[2]]]
  BY DEF load_dir
<1> HIDE DEF lines
<1> QED BY <1>1, <1>2 DEF IsRecord

(* A line written is a new record after those of its file, or none.        *)
Extended(old, new, at, rec) ==
  /\ DOMAIN old \subseteq DOMAIN new /\ DOMAIN new \subseteq DOMAIN old \cup {at}
  /\ at \notin DOMAIN old
  /\ \A i \in DOMAIN old : new[i] = old[i]
  /\ at \in DOMAIN new => new[at] = rec
  /\ \A i \in DOMAIN old : i[1] = at[1] => i[2] < at[2]

LEMMA Positions ==
  ASSUME NEW n \in Nat, NEW k \in 1 .. n, NEW m \in {n, n + 1}
  PROVE  k \in 1 .. m /\ (k = n \/ k \in 1 .. (n - 1))
OBVIOUS

LEMMA LineExtends ==
  ASSUME NEW dir, NEW d \in DOMAIN dir, \A e \in DOMAIN dir : IsSequence(dir[e]), NEW line,
         NEW new, DOMAIN new = DOMAIN dir, new[d] = Encode(dir[d], line),
         \A e \in DOMAIN dir \ {d} : new[e] = dir[e]
  PROVE  /\ Extended(load_dir(dir), load_dir(new), <<d, Len(dir[d]) + 1>>, line)
         /\ Len(dir[d]) \in Nat
         /\ line \in {Torn, Garbled} => <<d, Len(dir[d]) + 1>> \notin DOMAIN load_dir(new)
<1> DEFINE n == Len(dir[d])
           file == dir[d]
           file2 == new[d]
           at == <<d, n + 1>>
           W == load_dir(dir)
           W2 == load_dir(new)
<1>1. /\ n \in Nat /\ DOMAIN file = 1 .. n /\ DOMAIN file2 = 1 .. Len(file2)
      /\ \/ /\ n # 0 /\ file[n] = Torn /\ Len(file2) = n /\ file2[n] \in {Torn, Garbled}
            /\ \A i \in 1 .. (n - 1) : file2[i] = file[i]
         \/ /\ Len(file2) = n + 1 /\ file2[n + 1] = line
            /\ \A i \in 1 .. n : file2[i] = file[i]
  BY EncodeLines
<1>2. \A i : i \in DOMAIN W <=> IsRecord(dir, i)
  BY RecordsOf
<1>3. \A i : i \in DOMAIN W2 <=> IsRecord(new, i)
  BY RecordsOf
<1>4. \A i : IsRecord(dir, i) => W[i] = dir[i[1]][i[2]]
  BY RecordsOf
<1>5. \A i : IsRecord(new, i) => W2[i] = new[i[1]][i[2]]
  BY RecordsOf
<1> HIDE DEF W, W2
<1>6. ASSUME NEW i, IsRecord(dir, i)
      PROVE  /\ IsRecord(new, i) /\ new[i[1]][i[2]] = dir[i[1]][i[2]] /\ i # at
             /\ i[1] = d => i[2] < n + 1
  <2>1. CASE i[1] = d
    <3>1. i[2] \in 1 .. n /\ file[i[2]] \notin {Torn, Garbled} /\ i = <<d, i[2]>>
      BY <1>1, <1>6, <2>1 DEF IsRecord
    <3>2. i[2] \in DOMAIN file2 /\ file2[i[2]] = file[i[2]]
      <4> DEFINE k == i[2]
      <4>1. k \in 1 .. n /\ file[k] \notin {Torn, Garbled}
        BY <3>1
      <4> HIDE DEF k, n, file, file2
      <4>2. n \in Nat /\ DOMAIN file2 = 1 .. Len(file2) /\ Len(file2) \in {n, n + 1}
        BY <1>1
      <4>3. k \in DOMAIN file2
        BY <4>1, <4>2, Positions, Zenon
      <4>4. file[n] = Torn => k \in 1 .. (n - 1)
        BY <4>1, <4>2, Positions, Zenon
      <4>5. file2[k] = file[k]
        BY <1>1, <4>1, <4>4
      <4> QED BY <4>3, <4>5 DEF k, file, file2
    <3> HIDE DEF n
    <3> QED BY <1>1, <1>6, <2>1, <3>1, <3>2 DEF IsRecord
  <2>2. CASE i[1] # d
    BY <1>6, <2>2 DEF IsRecord
  <2> QED BY <2>1, <2>2
<1>7. ASSUME NEW i, IsRecord(new, i), ~IsRecord(dir, i)
      PROVE  i = at /\ new[i[1]][i[2]] = line /\ line \notin {Torn, Garbled}
  <2>1. i[1] = d
    BY <1>7 DEF IsRecord
  <2>2. i[2] \in 1 .. Len(file2) /\ file2[i[2]] \notin {Torn, Garbled} /\ i = <<d, i[2]>>
    BY <1>1, <1>7, <2>1 DEF IsRecord
  <2>3. ~(i[2] \in 1 .. n /\ file[i[2]] \notin {Torn, Garbled})
    BY <1>1, <1>7, <2>1, <2>2 DEF IsRecord
  <2>4. i[2] = n + 1 /\ file2[n + 1] = line
    <3> DEFINE k == i[2]
    <3>1. k \in 1 .. Len(file2) /\ file2[k] \notin {Torn, Garbled}
      BY <2>2
    <3>2. ~(k \in 1 .. n /\ file[k] \notin {Torn, Garbled})
      BY <2>3
    <3> HIDE DEF k, n, file, file2
    <3>3. CASE Len(file2) = n
      <4>1. file2[n] \in {Torn, Garbled} /\ \A j \in 1 .. (n - 1) : file2[j] = file[j]
        BY <1>1, <3>3
      <4>2. k # n /\ k \in 1 .. (n - 1)
        BY <1>1, <3>1, <3>3, <4>1
      <4>3. k \in 1 .. n /\ file2[k] = file[k]
        BY <3>1, <3>3, <4>1, <4>2
      <4> QED BY <3>1, <3>2, <4>3
    <3>4. CASE Len(file2) # n
      <4>1. /\ Len(file2) = n + 1 /\ file2[n + 1] = line
            /\ \A j \in 1 .. n : file2[j] = file[j]
        BY <1>1, <3>4
      <4>2. k = n + 1 \/ k \in 1 .. n
        BY <1>1, <3>1, <4>1
      <4>3. k # n + 1 => FALSE
        BY <3>1, <3>2, <4>1, <4>2
      <4> QED BY <4>1, <4>3 DEF k, file2
    <3> QED BY <3>3, <3>4
  <2> QED BY <2>1, <2>2, <2>4
<1> HIDE DEF at
<1>8. Extended(W, W2, at, line)
  <2>1. at[1] = d /\ at[2] = n + 1
    BY DEF at
  <2> HIDE DEF n
  <2> QED BY <1>2, <1>3, <1>4, <1>5, <1>6, <1>7, <2>1 DEF Extended
<1>9. line \in {Torn, Garbled} => at \notin DOMAIN W2
  BY <1>3, <1>6, <1>7
<1> QED BY <1>1, <1>8, <1>9 DEF W, W2, at

-----------------------------------------------------------------------------
(* What was used and what is charged.  A ledger names, for every unit of   *)
(* time used on a host, the process number it was used under, and for      *)
(* every record how much had been used when it was made.                   *)

Ticks(owner, p, a, b) == {t \in (a + 1) .. b : owner[t] = p}

Ledger(W, P, b, owner, stamp) ==
  /\ \A i \in DOMAIN W : stamp[i] \in 0 .. b
  /\ \A i, j \in DOMAIN W : W[j].pid = W[i].pid /\ Before(W, j, i) =>
       /\ stamp[j] <= stamp[i]
       /\ W[i].cpu - W[j].cpu <= Cardinality(Ticks(owner, W[i].pid, stamp[j], stamp[i]))
  /\ \A j \in DOMAIN W : P[W[j].pid] # NoProcess =>
       P[W[j].pid].cpu - W[j].cpu <= Cardinality(Ticks(owner, W[j].pid, stamp[j], b))

RecordsOK(W, pids) ==
  \A i \in DOMAIN W : /\ W[i].ts \in Nat /\ W[i].cpu \in Nat /\ W[i].pid \in pids
                      /\ i = <<i[1], i[2]>> /\ i[1] \in Nat /\ i[2] \in Nat

LEMMA TicksAreFinite ==
  ASSUME NEW owner, NEW p, NEW a \in Int, NEW b \in Int
  PROVE  /\ IsFiniteSet(Ticks(owner, p, a, b)) /\ Cardinality(Ticks(owner, p, a, b)) \in Nat
         /\ \A x \in Nat : a >= 0 /\ b <= x => Ticks(owner, p, a, b) \subseteq 1 .. x
<1>1. IsFiniteSet((a + 1) .. b)
  BY FS_Interval
<1>2. Ticks(owner, p, a, b) \subseteq (a + 1) .. b
  BY DEF Ticks
<1>3. IsFiniteSet(Ticks(owner, p, a, b)) /\ Cardinality(Ticks(owner, p, a, b)) \in Nat
  BY <1>1, <1>2, FS_Subset, FS_CardinalityType
<1>4. \A x \in Nat : a >= 0 /\ b <= x => Ticks(owner, p, a, b) \subseteq 1 .. x
  BY DEF Ticks
<1> QED BY <1>3, <1>4

(* A process ends, or begins with nothing used.                            *)
LEMMA LedgerOfProcesses ==
  ASSUME NEW W, NEW pids, RecordsOK(W, pids), NEW P, NEW b \in Nat, NEW owner, NEW stamp,
         Ledger(W, P, b, owner, stamp),
         NEW P2, \A p \in pids : P2[p] = P[p] \/ P2[p] = NoProcess \/ P2[p].cpu = 0
  PROVE  Ledger(W, P2, b, owner, stamp)
<1> SUFFICES ASSUME NEW j \in DOMAIN W, P2[W[j].pid] # NoProcess
             PROVE  P2[W[j].pid].cpu - W[j].cpu
                      <= Cardinality(Ticks(owner, W[j].pid, stamp[j], b))
  BY DEF Ledger
<1>1. CASE P2[W[j].pid] = P[W[j].pid]
  BY <1>1 DEF Ledger
<1>2. CASE P2[W[j].pid].cpu = 0
  <2> DEFINE n == Cardinality(Ticks(owner, W[j].pid, stamp[j], b))
             c == W[j].cpu
  <2>1. stamp[j] \in Int /\ b \in Int
    BY DEF Ledger
  <2>2. Cardinality(Ticks(owner, W[j].pid, stamp[j], b)) \in Nat
    BY <2>1, TicksAreFinite, Zenon
  <2>3. c \in Nat /\ n \in Nat
    BY <2>2 DEF RecordsOK
  <2> HIDE DEF n, c
  <2>4. 0 - c <= n
    BY <2>3
  <2> QED BY <1>2, <2>4 DEF n, c
<1>3. W[j].pid \in pids
  BY DEF RecordsOK
<1> QED BY <1>1, <1>2, <1>3

(* A process uses another unit.                                            *)
LEMMA LedgerOfUse ==
  ASSUME NEW W, NEW pids, RecordsOK(W, pids), NEW P, NEW b \in Nat, NEW owner, NEW stamp,
         Ledger(W, P, b, owner, stamp),
         NEW q, P[q] # NoProcess, P[q].cpu \in Nat,
         NEW P2, P2[q].cpu = P[q].cpu + 1, \A p \in pids : p # q => P2[p] = P[p]
  PROVE  Ledger(W, P2, b + 1, [t \in 1 .. (b + 1) |-> IF t <= b THEN owner[t] ELSE q], stamp)
<1> DEFINE mine == [t \in 1 .. (b + 1) |-> IF t <= b THEN owner[t] ELSE q]
<1>1. ASSUME NEW p, NEW x \in 0 .. b, NEW y \in 0 .. b
      PROVE  Ticks(mine, p, x, y) = Ticks(owner, p, x, y)
  BY DEF Ticks
<1>2. ASSUME NEW p, NEW x \in 0 .. b
      PROVE  /\ Ticks(mine, p, x, b + 1)
                  = Ticks(owner, p, x, b) \cup (IF p = q THEN {b + 1} ELSE {})
             /\ b + 1 \notin Ticks(owner, p, x, b)
  BY DEF Ticks
<1>3. \A i \in DOMAIN W : stamp[i] \in 0 .. b
  BY DEF Ledger
<1> HIDE DEF mine
<1>4. ASSUME NEW i \in DOMAIN W, NEW j \in DOMAIN W, W[j].pid = W[i].pid, Before(W, j, i)
      PROVE  /\ stamp[j] <= stamp[i]
             /\ W[i].cpu - W[j].cpu <= Cardinality(Ticks(mine, W[i].pid, stamp[j], stamp[i]))
  <2>1. Ticks(mine, W[i].pid, stamp[j], stamp[i]) = Ticks(owner, W[i].pid, stamp[j], stamp[i])
    BY <1>1, <1>3
  <2> QED BY <1>4, <2>1 DEF Ledger
<1>5. ASSUME NEW j \in DOMAIN W, P2[W[j].pid] # NoProcess
      PROVE  P2[W[j].pid].cpu - W[j].cpu <= Cardinality(Ticks(mine, W[j].pid, stamp[j], b + 1))
  <2> DEFINE p == W[j].pid
             old == Ticks(owner, p, stamp[j], b)
             new == Ticks(mine, p, stamp[j], b + 1)
             c == W[j].cpu
             d == P[q].cpu
  <2>1. IsFiniteSet(old) /\ Cardinality(old) \in Nat
    BY <1>3, TicksAreFinite
  <2>2. new = old \cup (IF p = q THEN {b + 1} ELSE {}) /\ b + 1 \notin old
    BY <1>2, <1>3
  <2>3. P[p] # NoProcess => P[p].cpu - c <= Cardinality(old)
    BY DEF Ledger
  <2>4. c \in Nat /\ d \in Nat
    BY DEF RecordsOK
  <2>5. CASE p = q
    <3>1. d - c <= Cardinality(old)
      BY <2>3, <2>5
    <3> HIDE DEF old, new
    <3>2. Cardinality(new) = Cardinality(old) + 1
      BY <2>1, <2>2, <2>5, FS_AddElement
    <3>3. P2[p].cpu = d + 1
      BY <2>5
    <3> HIDE DEF c, d
    <3>4. (d + 1) - c <= Cardinality(new)
      BY <2>1, <2>4, <3>1, <3>2
    <3> QED BY <3>3, <3>4 DEF c, new, p
  <2>6. CASE p # q
    <3>1. new = old /\ P2[p] = P[p]
      BY <2>2, <2>6 DEF RecordsOK
    <3> QED BY <1>5, <2>3, <3>1
  <2> QED BY <2>5, <2>6
<1>6. \A i \in DOMAIN W : stamp[i] \in 0 .. (b + 1)
  BY <1>3
<1>7. Ledger(W, P2, b + 1, mine, stamp)
  BY <1>4, <1>5, <1>6 DEF Ledger
<1> QED BY <1>7 DEF mine

(* A record is written of a process that is running, after all others of   *)
(* its number.                                                             *)
LEMMA LedgerOfRecord ==
  ASSUME NEW W, NEW W2, NEW pids, RecordsOK(W2, pids), NEW at, NEW rec, Extended(W, W2, at, rec),
         NEW P, NEW b \in Nat, NEW owner, NEW stamp, Ledger(W, P, b, owner, stamp),
         at \in DOMAIN W2 =>
           /\ P[rec.pid] # NoProcess /\ rec.cpu = P[rec.pid].cpu
           /\ \A i \in DOMAIN W : ~Before(W2, at, i)
  PROVE  \E mark : Ledger(W2, P, b, owner, mark)
<1> DEFINE mark == [i \in DOMAIN W2 |-> IF i \in DOMAIN W THEN stamp[i] ELSE b]
<1>1. \A i \in DOMAIN W : i \in DOMAIN W2 /\ W2[i] = W[i] /\ mark[i] = stamp[i]
  BY DEF Extended
<1>2. \A i \in DOMAIN W2 : i \in DOMAIN W \/ (i = at /\ W2[at] = rec /\ at \notin DOMAIN W)
  BY DEF Extended
<1>3. at \in DOMAIN W2 => mark[at] = b
  BY DEF Extended
<1>4. \A i, j \in DOMAIN W : Before(W2, j, i) => Before(W, j, i)
  BY <1>1 DEF Before
<1>5. ~Before(W2, at, at) \/ at \notin DOMAIN W2
  BY DEF Before, RecordsOK
<1> HIDE DEF mark
<1>6. ASSUME NEW i \in DOMAIN W2 PROVE mark[i] \in 0 .. b
  BY <1>1, <1>2, <1>3 DEF Ledger
<1>7. ASSUME NEW i \in DOMAIN W2, NEW j \in DOMAIN W2, W2[j].pid = W2[i].pid, Before(W2, j, i)
      PROVE  /\ mark[j] <= mark[i]
             /\ W2[i].cpu - W2[j].cpu <= Cardinality(Ticks(owner, W2[i].pid, mark[j], mark[i]))
  <2>1. j \in DOMAIN W
    BY <1>2, <1>5, <1>7
  <2>2. CASE i \in DOMAIN W
    BY <1>1, <1>4, <1>7, <2>1, <2>2 DEF Ledger
  <2>3. CASE i \notin DOMAIN W
    <3>1. i = at /\ W2[i] = rec /\ mark[i] = b /\ W2[i].cpu = P[rec.pid].cpu
      BY <1>2, <1>3, <2>3
    <3>2. W2[j] = W[j] /\ mark[j] = stamp[j] /\ W[j].pid = rec.pid
      BY <1>1, <1>7, <2>1, <3>1
    <3>3. P[rec.pid].cpu - W[j].cpu <= Cardinality(Ticks(owner, rec.pid, stamp[j], b))
      BY <2>1, <3>1, <3>2 DEF Ledger
    <3>4. stamp[j] <= b
      BY <2>1 DEF Ledger
    <3> QED BY <3>1, <3>2, <3>3, <3>4
  <2> QED BY <2>2, <2>3
<1>8. ASSUME NEW j \in DOMAIN W2, P[W2[j].pid] # NoProcess
      PROVE  P[W2[j].pid].cpu - W2[j].cpu <= Cardinality(Ticks(owner, W2[j].pid, mark[j], b))
  <2>1. CASE j \in DOMAIN W
    BY <1>1, <1>8, <2>1 DEF Ledger
  <2>2. CASE j \notin DOMAIN W
    <3> DEFINE n == Cardinality(Ticks(owner, W2[j].pid, mark[j], b))
               c == W2[j].cpu
    <3>1. P[W2[j].pid].cpu = c /\ c \in Nat
      BY <1>2, <2>2 DEF RecordsOK
    <3>2. n \in Nat
      BY <1>6, TicksAreFinite
    <3> HIDE DEF c, n
    <3>3. c - c <= n
      BY <3>1, <3>2
    <3> QED BY <3>1, <3>3 DEF c, n
  <2> QED BY <2>1, <2>2
<1>9. Ledger(W2, P, b, owner, mark)
  BY <1>6, <1>7, <1>8 DEF Ledger
<1> QED BY <1>9

(* A report of some of the records charges no more than was used.          *)
LEMMA LedgerBalances ==
  ASSUME NEW W, NEW pids, RecordsOK(W, pids), NEW P, NEW b \in Nat, NEW owner, NEW stamp,
         Ledger(W, P, b, owner, stamp),
         NEW R, IsFiniteSet(DOMAIN R), DOMAIN R \subseteq DOMAIN W,
         \A i \in DOMAIN R : R[i] = W[i]
  PROVE  SumFunction(aggregate_by_service(R)) <= b
<1> DEFINE I == DOMAIN R
           share == [i \in I |-> UNION {Ticks(owner, R[i].pid, stamp[j], stamp[i]) : j \in Previous(R, i)}]
<1>1. \A i \in I : /\ i \in DOMAIN W /\ R[i] = W[i] /\ stamp[i] \in 0 .. b
                   /\ R[i].ts \in Nat /\ R[i].cpu \in Nat
                   /\ i = <<i[1], i[2]>> /\ i[1] \in Nat /\ i[2] \in Nat
  BY DEF Ledger, RecordsOK
<1>2. ASSUME NEW i \in I, NEW j \in I
      PROVE  /\ i = j \/ Before(R, i, j) \/ Before(R, j, i)
             /\ Before(R, j, i) <=> Before(W, j, i)
  BY <1>1 DEF Before
<1>3. ASSUME NEW i \in I, NEW j \in Previous(R, i)
      PROVE  /\ j \in I /\ R[j].pid = R[i].pid /\ Before(R, j, i)
             /\ \A k \in I : R[k].pid = R[i].pid /\ Before(R, k, i) => ~Before(R, j, k)
  BY <1>3 DEF Previous, Latest
<1>4. ASSUME NEW i \in I, NEW j \in Previous(R, i)
      PROVE  /\ Previous(R, i) = {j}
             /\ stamp[j] <= stamp[i]
             /\ R[i].cpu - R[j].cpu <= Cardinality(Ticks(owner, R[i].pid, stamp[j], stamp[i]))
  <2>1. \A k \in Previous(R, i) : k = j
    BY <1>2, <1>3, <1>4
  <2>2. j \in I /\ W[j].pid = W[i].pid /\ Before(W, j, i)
    BY <1>1, <1>2, <1>3, <1>4
  <2>3. /\ stamp[j] <= stamp[i]
        /\ W[i].cpu - W[j].cpu <= Cardinality(Ticks(owner, W[i].pid, stamp[j], stamp[i]))
    BY <2>2 DEF Ledger
  <2> QED BY <1>1, <1>4, <2>1, <2>2, <2>3
<1>5. ASSUME NEW i \in I
      PROVE  /\ share[i] \subseteq 1 .. b /\ compute_delta(R, i) \in Nat
             /\ compute_delta(R, i) <= Cardinality(share[i])
  <2>1. CASE Previous(R, i) = {}
    <3>1. share[i] = {} /\ compute_delta(R, i) = Max({0})
      BY <2>1 DEF compute_delta
    <3>2. Max({0}) = 0
      BY DEF Max
    <3>3. Cardinality({}) = 0 /\ {} \subseteq 1 .. b
      BY FS_EmptySet
    <3> HIDE DEF share
    <3> QED BY <3>1, <3>2, <3>3
  <2>2. ASSUME NEW j \in Previous(R, i)
        PROVE  /\ share[i] \subseteq 1 .. b /\ compute_delta(R, i) \in Nat
               /\ compute_delta(R, i) <= Cardinality(share[i])
    <3> DEFINE d == R[i].cpu - R[j].cpu
               T == Ticks(owner, R[i].pid, stamp[j], stamp[i])
    <3>1. Previous(R, i) = {j} /\ d <= Cardinality(T)
      BY <1>4
    <3>2. share[i] = T /\ compute_delta(R, i) = Max({0, d})
      <4>1. {R[i].cpu - R[k].cpu : k \in Previous(R, i)} = {d}
        BY <3>1
      <4>2. {0} \cup {d} = {0, d}
        OBVIOUS
      <4> HIDE DEF d
      <4>3. compute_delta(R, i) = Max({0, d})
        BY <4>1, <4>2 DEF compute_delta
      <4> QED BY <3>1, <4>3
    <3>3. d \in Int
      BY <1>1, <1>3
    <3>4. Cardinality(T) \in Nat /\ T \subseteq 1 .. b
      <4>1. stamp[i] \in 0 .. b /\ stamp[j] \in 0 .. b
        BY <1>1, <1>3
      <4> QED BY <4>1, TicksAreFinite
    <3> HIDE DEF d, T
    <3>5. Max({0, d}) \in {0, d} /\ Max({0, d}) >= 0
      BY <3>3 DEF Max
    <3> HIDE DEF share
    <3> QED BY <3>1, <3>2, <3>3, <3>4, <3>5
  <2> QED BY <2>1, <2>2
<1>6. ASSUME NEW i \in I, NEW k \in I, Before(R, i, k) PROVE share[i] \cap share[k] = {}
  <2> SUFFICES ASSUME NEW t \in share[i], t \in share[k] PROVE FALSE
    OBVIOUS
  <2>1. PICK j \in Previous(R, k) : t \in Ticks(owner, R[k].pid, stamp[j], stamp[k])
    OBVIOUS
  <2>2. PICK l \in Previous(R, i) : t \in Ticks(owner, R[i].pid, stamp[l], stamp[i])
    OBVIOUS
  <2>3. /\ R[k].pid = R[i].pid
        /\ t \in (stamp[j] + 1) .. stamp[k] /\ t \in (stamp[l] + 1) .. stamp[i]
    BY <2>1, <2>2 DEF Ticks
  <2>4. j \in I /\ R[j].pid = R[k].pid /\ ~Before(R, j, i)
    BY <1>3, <1>6, <2>3
  <2>5. j = i \/ Before(R, i, j)
    BY <1>2, <2>4
  <2>6. stamp[i] <= stamp[j]
    <3>1. CASE j = i
      BY <1>1, <3>1
    <3>2. CASE Before(R, i, j)
      <4>1. W[i].pid = W[j].pid /\ Before(W, i, j)
        BY <1>1, <1>2, <2>3, <2>4, <3>2
      <4> QED BY <1>1, <2>4, <4>1 DEF Ledger
    <3> QED BY <2>5, <3>1, <3>2
  <2>7. stamp[i] \in Int /\ stamp[j] \in Int /\ stamp[k] \in Int /\ stamp[l] \in Int
    BY <1>1, <1>3
  <2> QED BY <2>3, <2>6, <2>7
<1>7. \A i, k \in I : i # k => share[i] \cap share[k] = {}
  BY <1>2, <1>6
<1> HIDE DEF share
<1>8. IsFiniteSet(1 .. b) /\ Cardinality(1 .. b) = b
  BY FS_Interval
<1>9. SumFunction(aggregate_by_service(R)) <= Cardinality(1 .. b)
  BY <1>5, <1>7, <1>8, ServicesShare
<1> QED BY <1>8, <1>9

-----------------------------------------------------------------------------
(* The books.                                                              *)

(* The records of a host are of times that have come, each in the file of  *)
(* its day.  As long as no two collectors ran at once there is at most one *)
(* collector, no record is younger than it, and the ledger balances.       *)
Written(h) == load_dir(files[h])
IsProcess(p) == p = [f \in DOMAIN p |-> p[f]] /\ "cpu" \in DOMAIN p /\ p.cpu \in Nat
Balanced(W, P, b) == \E owner, stamp : Ledger(W, P, b, owner, stamp)

ProcessInv ==
  /\ procs = [h \in Hosts |-> procs[h]] /\ burned \in [Hosts -> Nat]
  /\ \A h \in Hosts : /\ procs[h] = [p \in S.pids |-> procs[h][p]]
                      /\ \A p \in S.pids : procs[h][p] # NoProcess => IsProcess(procs[h][p])

RecordInv ==
  \A h \in Hosts : /\ RecordsOK(Written(h), S.pids)
                   /\ \A i \in DOMAIN Written(h) :
                        Written(h)[i].ts <= now /\ DayOf(Written(h)[i].ts) = i[1]

CollectorInv ==
  \A h \in Hosts : \A c \in collects[h] : c.ts \in Nat /\ c.ts <= now /\ c.left \subseteq S.pids

AloneInv ==
  \A h \in Hosts : ~overlapped[h] =>
    \A c \in collects[h] : /\ collects[h] = {c}
                           /\ \A i \in DOMAIN Written(h) : Written(h)[i].ts <= c.ts

BalanceInv ==
  \A h \in Hosts : ~overlapped[h] => Balanced(Written(h), procs[h], burned[h])

BookInv == ProcessInv /\ RecordInv /\ CollectorInv /\ AloneInv /\ BalanceInv

LEMMA BookInit == Init => BookInv
<1> SUFFICES ASSUME Init PROVE BookInv
  OBVIOUS
<1>1. ASSUME NEW h \in Hosts PROVE DOMAIN Written(h) = {}
  <2>1. DOMAIN files[h] = {}
    BY DEF Init
  <2>2. \A at : ~IsRecord(files[h], at)
    BY <2>1 DEF IsRecord
  <2> QED BY <2>2, RecordsOf DEF Written
<1>2. ProcessInv
  BY DEF Init, ProcessInv
<1>3. RecordInv
  BY <1>1 DEF RecordInv, RecordsOK
<1>4. CollectorInv /\ AloneInv
  BY DEF Init, CollectorInv, AloneInv
<1>5. BalanceInv
  BY <1>1 DEF BalanceInv, Balanced, Ledger
<1> QED BY <1>2, <1>3, <1>4, <1>5 DEF BookInv

(* What leaves the hosts alone leaves their books alone.                   *)
LEMMA BookFrame ==
  ASSUME BookInv, UNCHANGED <<site, files, collects, procs, burned, now, overlapped>>
  PROVE  BookInv'
<1>1. S' = S /\ Hosts' = Hosts /\ \A ts : DayOf(ts)' = DayOf(ts')
  BY DEF S, Hosts, DayOf
<1>2. \A h : Written(h)' = Written(h')
  BY DEF Written
<1>3. ProcessInv'
  BY <1>1 DEF BookInv, ProcessInv
<1>4. RecordInv'
  BY <1>1, <1>2 DEF BookInv, RecordInv
<1>5. CollectorInv' /\ AloneInv'
  BY <1>1, <1>2 DEF BookInv, CollectorInv, AloneInv
<1>6. BalanceInv'
  BY <1>1, <1>2 DEF BookInv, BalanceInv
<1> QED BY <1>3, <1>4, <1>5, <1>6 DEF BookInv

(* A file that was begun has no record.                                    *)
LEMMA NoNewRecord ==
  ASSUME NEW file, NEW day
  PROVE  load_dir(WithDay(file, day)) = load_dir(file)
<1> DEFINE new == WithDay(file, day)
<1>1. \A d \in DOMAIN file : d \in DOMAIN new /\ new[d] = file[d]
  BY DEF WithDay
<1>2. \A d \in DOMAIN new : d \in DOMAIN file \/ DOMAIN new[d] = {}
  BY DEF WithDay
<1> HIDE DEF new
<1>3. \A at : IsRecord(new, at) <=> IsRecord(file, at)
  BY <1>1, <1>2 DEF IsRecord
<1>4. \A at : IsRecord(file, at) => new[at[1]][at[2]] = file[at[1]][at[2]]
  BY <1>1 DEF IsRecord
<1>5. DOMAIN load_dir(new) = DOMAIN load_dir(file)
  BY <1>3, RecordsOf
<1>6. \A at \in DOMAIN load_dir(file) : load_dir(new)[at] = load_dir(file)[at]
  BY <1>3, <1>4, RecordsOf
<1>7. \A dir : load_dir(dir) = [at \in DOMAIN load_dir(dir) |-> load_dir(dir)[at]]
  BY DEF load_dir
<1>8. load_dir(new) = load_dir(file)
  <2> DEFINE A == load_dir(new)
             B == load_dir(file)
  <2>1. A = [at \in DOMAIN A |-> A[at]] /\ B = [at \in DOMAIN B |-> B[at]]
    BY <1>7
  <2>2. DOMAIN A = DOMAIN B /\ \A at \in DOMAIN B : A[at] = B[at]
    BY <1>5, <1>6
  <2> HIDE DEF A, B
  <2>3. A = B
    BY <2>1, <2>2
  <2> QED BY <2>3 DEF A, B
<1> QED BY <1>8 DEF new

(* Collectors start, at a time that is today's.                            *)
LEMMA BookStart ==
  ASSUME FileInv, BookInv, NEW hs, NEW kind, StartCollects(hs, kind, now'),
         now' \in {now, now + 1}, UNCHANGED <<site, procs, burned>>
  PROVE  BookInv'
<1>1. S' = S /\ Hosts' = Hosts /\ \A ts : DayOf(ts)' = DayOf(ts')
  BY DEF S, Hosts, DayOf
<1>2. now \in Nat /\ now' \in Nat /\ now <= now'
  BY DEF FileInv
<1>3. /\ files' = [g \in Hosts |-> IF g \in hs THEN WithDay(files[g], DayOf(now')) ELSE files[g]]
      /\ collects' = [g \in Hosts |-> collects[g] \cup
           IF g \in hs THEN {[kind |-> kind, ts |-> now', left |-> Live(g), failed |-> FALSE]} ELSE {}]
      /\ overlapped' = [g \in Hosts |-> overlapped[g] \/ (g \in hs /\ collects[g] # {})]
  BY Zenon DEF StartCollects
<1>4. ASSUME NEW g \in Hosts PROVE load_dir(files'[g]) = Written(g)
  BY <1>3, NoNewRecord DEF Written
<1>5. \A g : Written(g)' = load_dir(files'[g'])
  BY DEF Written
<1>6. ProcessInv'
  BY <1>1 DEF BookInv, ProcessInv
<1>7. RecordInv'
  <2> SUFFICES ASSUME NEW g \in Hosts
               PROVE  /\ RecordsOK(Written(g), S.pids)
                      /\ \A i \in DOMAIN Written(g) :
                           Written(g)[i].ts <= now' /\ DayOf(Written(g)[i].ts) = i[1]
    BY <1>1, <1>4, <1>5 DEF RecordInv
  <2>1. /\ RecordsOK(Written(g), S.pids)
        /\ \A i \in DOMAIN Written(g) :
             Written(g)[i].ts <= now /\ DayOf(Written(g)[i].ts) = i[1]
    BY DEF BookInv, RecordInv
  <2>2. ASSUME NEW i \in DOMAIN Written(g) PROVE Written(g)[i].ts <= now'
    <3> DEFINE ts == Written(g)[i].ts
    <3>1. ts \in Nat /\ ts <= now
      BY <2>1 DEF RecordsOK
    <3> HIDE DEF ts
    <3>2. ts <= now'
      BY <1>2, <3>1
    <3> QED BY <3>2 DEF ts
  <2> QED BY <2>1, <2>2
<1>8. CollectorInv'
  <2> SUFFICES ASSUME NEW g \in Hosts, NEW c \in collects'[g]
               PROVE  c.ts \in Nat /\ c.ts <= now' /\ c.left \subseteq S.pids
    BY <1>1 DEF CollectorInv
  <2>1. CASE c \in collects[g]
    BY <1>2, <2>1 DEF BookInv, CollectorInv
  <2>2. CASE c = [kind |-> kind, ts |-> now', left |-> Live(g), failed |-> FALSE]
    BY <1>2, <2>2 DEF Live
  <2> QED BY <1>3, <2>1, <2>2
<1>9. AloneInv'
  <2> SUFFICES ASSUME NEW g \in Hosts, ~overlapped'[g], NEW c \in collects'[g]
               PROVE  /\ collects'[g] = {c}
                      /\ \A i \in DOMAIN Written(g) : Written(g)[i].ts <= c.ts
    BY <1>1, <1>4, <1>5 DEF AloneInv
  <2>1. ~overlapped[g] /\ (g \in hs => collects[g] = {})
    BY <1>3
  <2>2. CASE g \in hs
    <3> DEFINE n == [kind |-> kind, ts |-> now', left |-> Live(g), failed |-> FALSE]
    <3>0. n.ts = now'
      OBVIOUS
    <3> HIDE DEF n
    <3>1. collects'[g] = {n}
      BY <1>3, <2>1, <2>2 DEF n
    <3>2. collects'[g] = {c} /\ c.ts = now'
      BY <3>0, <3>1
    <3> QED BY <1>1, <1>4, <1>5, <1>7, <3>2 DEF RecordInv
  <2>3. CASE g \notin hs
    BY <1>3, <2>1, <2>3 DEF BookInv, AloneInv
  <2> QED BY <2>2, <2>3
<1>10. BalanceInv'
  <2> SUFFICES ASSUME NEW g \in Hosts, ~overlapped'[g]
               PROVE  Balanced(Written(g), procs[g], burned[g])
    BY <1>1, <1>4, <1>5 DEF BalanceInv
  <2>1. ~overlapped[g]
    BY <1>3
  <2> QED BY <2>1 DEF BookInv, BalanceInv
<1> QED BY <1>6, <1>7, <1>8, <1>9, <1>10 DEF BookInv

(* A process ends or begins.                                               *)
LEMMA BookProcess ==
  ASSUME FileInv, BookInv, NEW h \in Hosts, NEW p \in S.pids, NEW q, q = NoProcess \/ (IsProcess(q) /\ q.cpu = 0),
         procs' = [procs EXCEPT ![h][p] = q],
         UNCHANGED <<site, files, collects, burned, now, overlapped>>
  PROVE  BookInv'
<1>1. S' = S /\ Hosts' = Hosts /\ \A ts : DayOf(ts)' = DayOf(ts')
  BY DEF S, Hosts, DayOf
<1>2. \A g : Written(g)' = Written(g')
  BY DEF Written
<1>3. procs = [g \in Hosts |-> procs[g]] /\ procs[h] = [x \in S.pids |-> procs[h][x]]
  BY DEF BookInv, ProcessInv
<1>4. /\ procs' = [g \in Hosts |-> procs'[g]]
      /\ \A g \in Hosts \ {h} : procs'[g] = procs[g]
      /\ procs'[h] = [x \in S.pids |-> IF x = p THEN q ELSE procs[h][x]]
  BY <1>3
<1>5. ProcessInv'
  <2>1. \A g \in Hosts : procs'[g] = [x \in S.pids |-> procs'[g][x]]
    BY <1>4 DEF BookInv, ProcessInv
  <2>2. ASSUME NEW g \in Hosts, NEW x \in S.pids, procs'[g][x] # NoProcess PROVE IsProcess(procs'[g][x])
    BY <1>4, <2>2 DEF BookInv, ProcessInv
  <2> QED BY <1>1, <1>4, <2>1, <2>2 DEF BookInv, ProcessInv
<1>6. RecordInv'
  BY <1>1, <1>2 DEF BookInv, RecordInv
<1>7. CollectorInv' /\ AloneInv'
  BY <1>1, <1>2 DEF BookInv, CollectorInv, AloneInv
<1>8. BalanceInv'
  <2> SUFFICES ASSUME NEW g \in Hosts, ~overlapped[g]
               PROVE  Balanced(Written(g), procs'[g], burned[g])
    BY <1>1, <1>2 DEF BalanceInv
  <2>1. Balanced(Written(g), procs[g], burned[g])
    BY DEF BookInv, BalanceInv
  <2>2. CASE g # h
    BY <1>4, <2>1, <2>2
  <2>3. CASE g = h
    <3>1. PICK owner, stamp : Ledger(Written(g), procs[g], burned[g], owner, stamp)
      BY <2>1 DEF Balanced
    <3>2. RecordsOK(Written(g), S.pids) /\ burned[g] \in Nat
      BY DEF BookInv, RecordInv, ProcessInv
    <3>3. \A x \in S.pids : \/ procs'[g][x] = procs[g][x] \/ procs'[g][x] = NoProcess
                            \/ procs'[g][x].cpu = 0
      BY <1>4, <2>3
    <3>4. Ledger(Written(g), procs'[g], burned[g], owner, stamp)
      BY <3>1, <3>2, <3>3, LedgerOfProcesses
    <3> QED BY <3>4 DEF Balanced
  <2> QED BY <2>2, <2>3
<1> QED BY <1>5, <1>6, <1>7, <1>8 DEF BookInv

(* A process uses another unit of processor time.                          *)
LEMMA BookBurn ==
  ASSUME FileInv, BookInv, NEW h \in Hosts, NEW p \in S.pids, Burn(h, p)
  PROVE  BookInv'
<1>0. /\ procs[h][p] # NoProcess
      /\ procs' = [procs EXCEPT ![h][p].cpu = @ + 1] /\ burned' = [burned EXCEPT ![h] = @ + 1]
      /\ UNCHANGED <<site, files, collects, now, overlapped>>
  BY DEF Burn, dataVars, clockVars
<1>1. S' = S /\ Hosts' = Hosts /\ \A ts : DayOf(ts)' = DayOf(ts')
  BY <1>0 DEF S, Hosts, DayOf
<1>2. \A g : Written(g)' = Written(g')
  BY <1>0 DEF Written
<1>3. /\ procs = [g \in Hosts |-> procs[g]] /\ procs[h] = [x \in S.pids |-> procs[h][x]]
      /\ IsProcess(procs[h][p])
  BY <1>0 DEF BookInv, ProcessInv
<1> DEFINE old == procs[h][p]
           new == [old EXCEPT !.cpu = @ + 1]
<1>4. IsProcess(new) /\ new.cpu = old.cpu + 1 /\ old.cpu \in Nat
  BY <1>3 DEF IsProcess
<1>5. /\ procs' = [g \in Hosts |-> procs'[g]]
      /\ \A g \in Hosts \ {h} : procs'[g] = procs[g]
      /\ procs'[h] = [x \in S.pids |-> IF x = p THEN new ELSE procs[h][x]]
  <2>1. procs' = [procs EXCEPT ![h] = [procs[h] EXCEPT ![p] = new]]
    BY <1>0
  <2> HIDE DEF new
  <2> QED BY <1>3, <2>1
<1>6. /\ burned' \in [Hosts -> Nat] /\ burned[h] \in Nat
      /\ burned'[h] = burned[h] + 1 /\ \A g \in Hosts \ {h} : burned'[g] = burned[g]
  BY <1>0 DEF BookInv, ProcessInv
<1> HIDE DEF new
<1>7. ProcessInv'
  <2>1. \A g \in Hosts : procs'[g] = [x \in S.pids |-> procs'[g][x]]
    BY <1>5 DEF BookInv, ProcessInv
  <2>2. ASSUME NEW g \in Hosts, NEW x \in S.pids, procs'[g][x] # NoProcess PROVE IsProcess(procs'[g][x])
    BY <1>4, <1>5, <2>2 DEF BookInv, ProcessInv
  <2> QED BY <1>1, <1>5, <1>6, <2>1, <2>2 DEF ProcessInv
<1>8. RecordInv'
  BY <1>0, <1>1, <1>2 DEF BookInv, RecordInv
<1>9. CollectorInv' /\ AloneInv'
  BY <1>0, <1>1, <1>2 DEF BookInv, CollectorInv, AloneInv
<1>10. BalanceInv'
  <2> SUFFICES ASSUME NEW g \in Hosts, ~overlapped[g]
               PROVE  Balanced(Written(g), procs'[g], burned'[g])
    BY <1>0, <1>1, <1>2 DEF BalanceInv
  <2>1. Balanced(Written(g), procs[g], burned[g])
    BY DEF BookInv, BalanceInv
  <2>2. CASE g # h
    BY <1>5, <1>6, <2>1, <2>2
  <2>3. CASE g = h
    <3>1. PICK owner, stamp : Ledger(Written(h), procs[h], burned[h], owner, stamp)
      BY <2>1, <2>3 DEF Balanced
    <3>2. RecordsOK(Written(h), S.pids)
      BY DEF BookInv, RecordInv
    <3>3. procs'[h][p].cpu = old.cpu + 1 /\ \A x \in S.pids : p # x => procs'[h][x] = procs[h][x]
      BY <1>4, <1>5
    <3> DEFINE W == Written(h)
               P == procs[h]
               P2 == procs'[h]
               b == burned[h]
    <3>4. /\ RecordsOK(W, S.pids) /\ b \in Nat /\ Ledger(W, P, b, owner, stamp)
          /\ P[p] # NoProcess /\ P[p].cpu \in Nat /\ P2[p].cpu = P[p].cpu + 1
          /\ \A x \in S.pids : p # x => P2[x] = P[x]
      BY <1>0, <1>4, <1>6, <3>1, <3>2, <3>3
    <3> HIDE DEF W, P, P2, b
    <3>5. Ledger(W, P2, b + 1, [t \in 1 .. (b + 1) |-> IF t <= b THEN owner[t] ELSE p], stamp)
      BY <3>4, LedgerOfUse
    <3>6. Balanced(W, P2, b + 1)
      BY <3>5 DEF Balanced
    <3> QED BY <1>6, <2>3, <3>6 DEF W, P2, b
  <2> QED BY <2>2, <2>3
<1> QED BY <1>7, <1>8, <1>9, <1>10 DEF BookInv

(* The least of some numbers is one of them.                               *)
LEMMA LeastNumber ==
  ASSUME NEW X, X \subseteq Nat, X # {}
  PROVE  Min(X) \in X
<1>1. IsWellFoundedOn(OpToRel(<, Nat), Nat)
  BY NatLessThanWellFounded
<1>2. PICK m \in X : \A x \in X : ~(<<x, m>> \in OpToRel(<, Nat))
  BY <1>1, WFMin
<1>3. \A x \in Nat, y \in Nat : x < y => <<x, y>> \in OpToRel(<, Nat)
  BY DEF OpToRel
<1>4. ASSUME NEW x \in X PROVE m <= x
  <2>1. m \in Nat /\ x \in Nat /\ ~(x < m)
    BY <1>2, <1>3
  <2> QED BY <2>1
<1> QED BY <1>4 DEF Min

(* A collector looks at a process: it leaves the list of the collector,    *)
(* may be gone, and a line may be written, cut off or with what the        *)
(* process had used.                                                       *)
LineOf(line, c, pid, p) ==
  line = Torn \/ (line.ts = c.ts /\ line.pid = pid /\ line.cpu = p.cpu)

LEMMA SampleEffect ==
  ASSUME TypeInv, FileInv, BookInv, NEW h \in Hosts, NEW c \in collects[h], SampleNext(h, c)
  PROVE  \E pid \in c.left :
           /\ UNCHANGED <<site, burned, now, overlapped>>
           /\ \E e : /\ collects' = [collects EXCEPT ![h] = (@ \ {c}) \cup {e}]
                     /\ e.ts = c.ts /\ e.left \subseteq c.left
           /\ UNCHANGED procs \/ procs' = [procs EXCEPT ![h][pid] = NoProcess]
           /\ \/ UNCHANGED files
              \/ /\ procs[h][pid] # NoProcess
                 /\ \E line : /\ files' = [files EXCEPT ![h][DayOf(c.ts)] = Encode(@, line)]
                              /\ LineOf(line, c, pid, procs[h][pid])
<1> DEFINE pid == Min(c.left)
           p == procs[h][pid]
           Effect == \E e : /\ collects' = [collects EXCEPT ![h] = (@ \ {c}) \cup {e}]
                            /\ e.ts = c.ts /\ e.left \subseteq c.left
           Lines == \E line : /\ files' = [files EXCEPT ![h][DayOf(c.ts)] = Encode(@, line)]
                              /\ LineOf(line, c, pid, procs[h][pid])
<1>1. pid \in c.left
  <2>1. S.pids \subseteq Nat
    BY SitesAssumption, Zenon DEF S, TypeInv
  <2>2. c.left \subseteq Nat /\ c.left # {}
    BY <2>1 DEF BookInv, CollectorInv, SampleNext
  <2> QED BY <2>2, LeastNumber
<1>2. c = [kind |-> c.kind, ts |-> c.ts, left |-> c.left, failed |-> c.failed]
  BY DEF FileInv, CollectOK
<1>3. /\ Sampled(c, pid).ts = c.ts /\ Sampled(c, pid).left \subseteq c.left
      /\ [Sampled(c, pid) EXCEPT !.failed = TRUE].ts = c.ts
      /\ [Sampled(c, pid) EXCEPT !.failed = TRUE].left \subseteq c.left
  BY <1>2 DEF Sampled
<1> HIDE DEF pid
<1>4. UNCHANGED <<site, burned, now, overlapped>>
  BY DEF SampleNext, clockVars
<1>5. Passes(h, c, pid) => Effect /\ UNCHANGED files
  BY <1>3, Zenon DEF Passes
<1>6. WriteFails(h, c, pid) => Effect /\ (UNCHANGED files \/ Lines)
  BY <1>3, Zenon DEF WriteFails, LineOf
<1>7. ASSUME NEW done, Write(h, c, pid, samplePid(c.ts, pid, p, done))
      PROVE  Effect /\ (UNCHANGED files \/ Lines)
  <2> DEFINE rec == samplePid(c.ts, pid, p, done)
  <2>1. LineOf(rec, c, pid, p)
    BY DEF samplePid, LineOf
  <2> HIDE DEF rec, p
  <2>2. \/ Passes(h, c, pid) \/ WriteFails(h, c, pid)
        \/ /\ files' = [files EXCEPT ![h][DayOf(c.ts)] = Encode(@, rec)]
           /\ collects' = [collects EXCEPT ![h] = (@ \ {c}) \cup {Sampled(c, pid)}]
    BY <1>7, Zenon DEF Write, rec
  <2> QED BY <1>3, <1>5, <1>6, <2>1, <2>2, Zenon DEF p
<1> HIDE DEF Effect, Lines
<1>8. \/ Passes(h, c, pid) /\ UNCHANGED procs
      \/ /\ p # NoProcess
         /\ UNCHANGED procs \/ procs' = [procs EXCEPT ![h][pid] = NoProcess]
         /\ Passes(h, c, pid) \/ \E done : Write(h, c, pid, samplePid(c.ts, pid, p, done))
  BY Zenon DEF SampleNext, pid
<1> HIDE DEF p
<1>9. /\ UNCHANGED procs \/ procs' = [procs EXCEPT ![h][pid] = NoProcess]
      /\ Effect /\ (UNCHANGED files \/ (p # NoProcess /\ Lines))
  BY <1>5, <1>7, <1>8, Zenon
<1> QED BY <1>1, <1>4, <1>9, Zenon DEF Effect, Lines, p

(* The line of a collector, in the file of its day.                        *)
LEMMA LineRecorded ==
  ASSUME FileInv, DataInv, NEW h \in Hosts, NEW c \in collects[h], NEW line,
         files' = [files EXCEPT ![h][DayOf(c.ts)] = Encode(@, line)]
  PROVE  /\ \A g \in Hosts \ {h} : files'[g] = files[g]
         /\ \E n \in Nat :
              LET at == <<DayOf(c.ts), n + 1>>
              IN  /\ Extended(Written(h), load_dir(files'[h]), at, line)
                  /\ line = Torn => at \notin DOMAIN load_dir(files'[h])
<1> DEFINE d == DayOf(c.ts)
           old == files[h]
           new == files'[h]
<1>1. files' = [files EXCEPT ![h] = [files[h] EXCEPT ![d] = Encode(files[h][d], line)]]
  OBVIOUS
<1>2. d \in DOMAIN old /\ \A e \in DOMAIN old : IsSequence(old[e])
  BY DEF FileInv, CollectOK, DataInv
<1>3. new = [old EXCEPT ![d] = Encode(old[d], line)] /\ \A g \in Hosts \ {h} : files'[g] = files[g]
  BY <1>1 DEF FileInv
<1>4. Written(h) = load_dir(old)
  BY DEF Written
<1> HIDE DEF d, old, new
<1>5. /\ DOMAIN new = DOMAIN old /\ new[d] = Encode(old[d], line)
      /\ \A e \in DOMAIN old \ {d} : new[e] = old[e]
  BY <1>2, <1>3
<1>6. /\ Extended(load_dir(old), load_dir(new), <<d, Len(old[d]) + 1>>, line)
      /\ Len(old[d]) \in Nat
      /\ line \in {Torn, Garbled} => <<d, Len(old[d]) + 1>> \notin DOMAIN load_dir(new)
  BY <1>2, <1>5, LineExtends
<1> QED BY <1>3, <1>4, <1>6 DEF d, new

(* A collector looks at a process.                                         *)
LEMMA BookSample ==
  ASSUME TypeInv, FileInv, DataInv, BookInv, NEW h \in Hosts, NEW c \in collects[h], SampleNext(h, c)
  PROVE  BookInv'
<1>1. PICK pid \in c.left :
        /\ UNCHANGED <<site, burned, now, overlapped>>
        /\ \E e : /\ collects' = [collects EXCEPT ![h] = (@ \ {c}) \cup {e}]
                  /\ e.ts = c.ts /\ e.left \subseteq c.left
        /\ UNCHANGED procs \/ procs' = [procs EXCEPT ![h][pid] = NoProcess]
        /\ \/ UNCHANGED files
           \/ /\ procs[h][pid] # NoProcess
              /\ \E line : /\ files' = [files EXCEPT ![h][DayOf(c.ts)] = Encode(@, line)]
                           /\ LineOf(line, c, pid, procs[h][pid])
  BY SampleEffect
<1>2. PICK e : /\ collects' = [collects EXCEPT ![h] = (@ \ {c}) \cup {e}]
               /\ e.ts = c.ts /\ e.left \subseteq c.left
  BY <1>1
<1> DEFINE W == Written(h)
           W2 == load_dir(files'[h])
           P == procs[h]
           P2 == procs'[h]
           d == DayOf(c.ts)
<1>3. S' = S /\ Hosts' = Hosts /\ \A ts : DayOf(ts)' = DayOf(ts')
      /\ \A g : Written(g)' = load_dir(files'[g'])
  BY <1>1 DEF S, Hosts, DayOf, Written
<1>4. /\ c.ts \in Nat /\ c.ts <= now /\ c.left \subseteq S.pids /\ pid \in S.pids /\ d \in Nat
      /\ now \in Nat
  <2>1. c.ts \in Nat /\ c.ts <= now /\ c.left \subseteq S.pids
    BY DEF BookInv, CollectorInv
  <2> QED BY <2>1, Days DEF FileInv
<1>5. /\ procs' = [g \in Hosts |-> procs'[g]]
      /\ \A g \in Hosts \ {h} : procs'[g] = procs[g]
      /\ P2 = [x \in S.pids |-> P2[x]]
      /\ \A x \in S.pids : P2[x] = P[x] \/ P2[x] = NoProcess
  <2>1. procs = [g \in Hosts |-> procs[g]] /\ P = [x \in S.pids |-> P[x]]
    BY DEF BookInv, ProcessInv
  <2>2. CASE UNCHANGED procs
    BY <2>1, <2>2
  <2>3. CASE procs' = [procs EXCEPT ![h][pid] = NoProcess]
    <3>1. procs' = [procs EXCEPT ![h] = [P EXCEPT ![pid] = NoProcess]]
      BY <2>3
    <3> HIDE DEF P
    <3>2. P2 = [P EXCEPT ![pid] = NoProcess]
      BY <2>1, <3>1
    <3> QED BY <2>1, <3>1, <3>2
  <2> QED BY <1>1, <2>2, <2>3
<1>6. /\ \A g \in Hosts \ {h} : load_dir(files'[g]) = Written(g)
      /\ \E at, line :
           /\ W2 = W \/ (P[pid] # NoProcess /\ Extended(W, W2, at, line))
           /\ at = <<at[1], at[2]>> /\ at[1] = d /\ at[2] \in Nat
           /\ W2 # W /\ at \in DOMAIN W2 =>
                line.ts = c.ts /\ line.pid = pid /\ line.cpu = P[pid].cpu
  <2>1. ASSUME NEW n \in Nat PROVE LET at == <<d, n>> IN at = <<at[1], at[2]>> /\ at[1] = d /\ at[2] \in Nat
    OBVIOUS
  <2>2. CASE UNCHANGED files
    <3>1. W2 = W /\ \A g \in Hosts \ {h} : load_dir(files'[g]) = Written(g)
      BY <2>2 DEF Written
    <3> HIDE DEF W, W2, P, d
    <3> QED BY <2>1, <3>1
  <2>3. ASSUME NEW line, files' = [files EXCEPT ![h][DayOf(c.ts)] = Encode(@, line)],
               LineOf(line, c, pid, P[pid]), P[pid] # NoProcess
        PROVE  <1>6
    <3>1. PICK n \in Nat : /\ Extended(W, W2, <<d, n + 1>>, line)
                           /\ line = Torn => <<d, n + 1>> \notin DOMAIN W2
      BY <2>3, LineRecorded
    <3>2. \A g \in Hosts \ {h} : load_dir(files'[g]) = Written(g)
      BY <2>3, LineRecorded DEF Written
    <3> HIDE DEF W, W2, P, d
    <3>3. n + 1 \in Nat
      OBVIOUS
    <3> QED BY <2>1, <2>3, <3>1, <3>2, <3>3 DEF LineOf
  <2> QED BY <1>1, <2>2, <2>3
<1>7. PICK at, line :
        /\ W2 = W \/ (P[pid] # NoProcess /\ Extended(W, W2, at, line))
        /\ at = <<at[1], at[2]>> /\ at[1] = d /\ at[2] \in Nat
        /\ W2 # W /\ at \in DOMAIN W2 =>
             line.ts = c.ts /\ line.pid = pid /\ line.cpu = P[pid].cpu
  BY <1>6
<1>8. /\ RecordsOK(W, S.pids) /\ \A i \in DOMAIN W : W[i].ts <= now /\ DayOf(W[i].ts) = i[1]
      /\ burned[h] \in Nat
      /\ P[pid] # NoProcess => P[pid].cpu \in Nat
  BY <1>4 DEF BookInv, RecordInv, ProcessInv, IsProcess
<1>9. ASSUME NEW i \in DOMAIN W2
      PROVE  \/ i \in DOMAIN W /\ W2[i] = W[i]
             \/ /\ i = at /\ W2 # W /\ P[pid] # NoProcess
                /\ W2[i].ts = c.ts /\ W2[i].pid = pid /\ W2[i].cpu = P[pid].cpu
  BY <1>7 DEF Extended
<1> HIDE DEF W, W2, P, P2, d
<1>10. /\ RecordsOK(W2, S.pids)
       /\ \A i \in DOMAIN W2 : W2[i].ts <= now /\ DayOf(W2[i].ts) = i[1]
  <2> SUFFICES ASSUME NEW i \in DOMAIN W2
               PROVE  /\ W2[i].ts \in Nat /\ W2[i].cpu \in Nat /\ W2[i].pid \in S.pids
                      /\ i = <<i[1], i[2]>> /\ i[1] \in Nat /\ i[2] \in Nat
                      /\ W2[i].ts <= now /\ DayOf(W2[i].ts) = i[1]
    BY DEF RecordsOK
  <2>1. CASE i \in DOMAIN W /\ W2[i] = W[i]
    BY <1>8, <2>1 DEF RecordsOK
  <2>2. CASE ~(i \in DOMAIN W /\ W2[i] = W[i])
    BY <1>4, <1>7, <1>8, <1>9, <2>2 DEF d
  <2> QED BY <2>1, <2>2
<1>11. ProcessInv'
  <2>1. \A g \in Hosts : procs'[g] = [x \in S.pids |-> procs'[g][x]]
    BY <1>5 DEF BookInv, ProcessInv, P2
  <2>2. ASSUME NEW g \in Hosts, NEW x \in S.pids, procs'[g][x] # NoProcess PROVE IsProcess(procs'[g][x])
    BY <1>5, <2>2 DEF BookInv, ProcessInv, P, P2
  <2> QED BY <1>1, <1>3, <1>5, <2>1, <2>2 DEF BookInv, ProcessInv
<1>12. RecordInv'
  <2> SUFFICES ASSUME NEW g \in Hosts
               PROVE  /\ RecordsOK(load_dir(files'[g]), S.pids)
                      /\ \A i \in DOMAIN load_dir(files'[g]) :
                           /\ load_dir(files'[g])[i].ts <= now
                           /\ DayOf(load_dir(files'[g])[i].ts) = i[1]
    BY <1>1, <1>3 DEF RecordInv
  <2>1. CASE g = h
    BY <1>10, <2>1 DEF W2
  <2>2. CASE g # h
    BY <1>6, <2>2 DEF BookInv, RecordInv
  <2> QED BY <2>1, <2>2
<1>13. /\ \A g \in Hosts \ {h} : collects'[g] = collects[g]
       /\ collects'[h] = (collects[h] \ {c}) \cup {e}
  BY <1>2 DEF FileInv
<1>14. CollectorInv'
  <2> SUFFICES ASSUME NEW g \in Hosts, NEW k \in collects'[g]
               PROVE  k.ts \in Nat /\ k.ts <= now /\ k.left \subseteq S.pids
    BY <1>1, <1>3 DEF CollectorInv
  <2>1. k \in collects[g] \/ k = e
    BY <1>13
  <2> QED BY <1>2, <1>4, <2>1 DEF BookInv, CollectorInv
<1>15. AloneInv'
  <2> SUFFICES ASSUME NEW g \in Hosts, ~overlapped[g], NEW k \in collects'[g]
               PROVE  /\ collects'[g] = {k}
                      /\ \A i \in DOMAIN load_dir(files'[g]) : load_dir(files'[g])[i].ts <= k.ts
    BY <1>1, <1>3 DEF AloneInv
  <2>1. CASE g # h
    BY <1>6, <1>13, <2>1 DEF BookInv, AloneInv
  <2>2. CASE g = h
    <3>1. collects[h] = {c} /\ \A i \in DOMAIN W : W[i].ts <= c.ts
      BY <2>2 DEF BookInv, AloneInv, W
    <3>2. collects'[h] = {k} /\ k.ts = c.ts
      BY <1>2, <1>13, <2>2, <3>1
    <3>3. \A i \in DOMAIN W2 : W2[i].ts <= c.ts
      BY <1>4, <1>9, <3>1
    <3> QED BY <2>2, <3>2, <3>3 DEF W2
  <2> QED BY <2>1, <2>2
<1>16. BalanceInv'
  <2> SUFFICES ASSUME NEW g \in Hosts, ~overlapped[g]
               PROVE  Balanced(load_dir(files'[g]), procs'[g], burned[g])
    BY <1>1, <1>3 DEF BalanceInv
  <2>1. Balanced(Written(g), procs[g], burned[g])
    BY DEF BookInv, BalanceInv
  <2>2. CASE g # h
    BY <1>5, <1>6, <2>1, <2>2
  <2>3. CASE g = h
    <3> DEFINE b == burned[h]
    <3>1. b \in Nat /\ Balanced(W, P, b)
      BY <1>8, <2>1, <2>3 DEF W, P
    <3> HIDE DEF b
    <3>2. PICK owner, stamp : Ledger(W, P, b, owner, stamp)
      BY <3>1 DEF Balanced
    <3>3. \E mark : Ledger(W2, P, b, owner, mark)
      <4>1. CASE W2 = W
        BY <3>2, <4>1
      <4>2. CASE W2 # W
        <5>1. Extended(W, W2, at, line)
          BY <1>7, <4>2
        <5>2. ASSUME at \in DOMAIN W2, NEW i \in DOMAIN W PROVE ~Before(W2, at, i)
          <6>1. \A k \in DOMAIN W : W[k].ts <= c.ts
            BY <2>3 DEF BookInv, AloneInv, W
          <6>2. W2[i] = W[i] /\ W2[at].ts = c.ts /\ (i[1] = at[1] => i[2] < at[2])
            BY <1>7, <4>2, <5>1, <5>2 DEF Extended
          <6>3. W2[i].ts = c.ts => i[1] = at[1]
            BY <1>7, <1>8, <6>2 DEF d
          <6>4. W[i].ts \in Nat /\ W[i].ts <= c.ts /\ c.ts \in Nat
            BY <1>4, <1>8, <6>1 DEF RecordsOK
          <6>5. i[2] \in Nat /\ at[2] \in Nat /\ at[1] \in Nat
            BY <1>4, <1>7, <1>8 DEF RecordsOK
          <6> QED BY <6>2, <6>3, <6>4, <6>5 DEF Before
        <5>3. at \in DOMAIN W2 =>
                /\ P[line.pid] # NoProcess /\ line.cpu = P[line.pid].cpu
                /\ \A i \in DOMAIN W : ~Before(W2, at, i)
          BY <1>7, <4>2, <5>2
        <5> QED BY <1>10, <3>1, <3>2, <5>1, <5>3, LedgerOfRecord
      <4> QED BY <4>1, <4>2
    <3>4. PICK mark : Ledger(W2, P, b, owner, mark)
      BY <3>3
    <3>5. \A x \in S.pids : P2[x] = P[x] \/ P2[x] = NoProcess \/ P2[x].cpu = 0
      BY <1>5
    <3>6. Ledger(W2, P2, b, owner, mark)
      BY <1>10, <3>1, <3>4, <3>5, LedgerOfProcesses
    <3> QED BY <2>3, <3>6 DEF Balanced, W2, P2, b
  <2> QED BY <2>2, <2>3
<1> QED BY <1>11, <1>12, <1>14, <1>15, <1>16 DEF BookInv

(* A collector is through.                                                 *)
LEMMA BookEnds ==
  ASSUME FileInv, BookInv, NEW h \in Hosts, NEW c \in collects[h], CollectEnds(h, c)
  PROVE  BookInv'
<1>1. /\ UNCHANGED <<site, files, procs, burned, now, overlapped>>
      /\ collects' = [collects EXCEPT ![h] = @ \ {c}]
  BY DEF CollectEnds, procVars, clockVars
<1>2. S' = S /\ Hosts' = Hosts /\ \A ts : DayOf(ts)' = DayOf(ts')
  BY <1>1 DEF S, Hosts, DayOf
<1>3. \A g : Written(g)' = Written(g')
  BY <1>1 DEF Written
<1>4. \A g \in Hosts : collects'[g] \subseteq collects[g]
  BY <1>1 DEF FileInv
<1>5. ProcessInv' /\ RecordInv' /\ BalanceInv'
  BY <1>1, <1>2, <1>3 DEF BookInv, ProcessInv, RecordInv, BalanceInv
<1>6. CollectorInv'
  BY <1>1, <1>2, <1>4 DEF BookInv, CollectorInv
<1>7. AloneInv'
  <2> SUFFICES ASSUME NEW g \in Hosts, ~overlapped[g], NEW k \in collects'[g]
               PROVE  /\ collects'[g] = {k}
                      /\ \A i \in DOMAIN Written(g) : Written(g)[i].ts <= k.ts
    BY <1>1, <1>2, <1>3 DEF AloneInv
  <2>1. k \in collects[g]
    BY <1>4
  <2>2. collects[g] = {k} /\ \A i \in DOMAIN Written(g) : Written(g)[i].ts <= k.ts
    BY <2>1 DEF BookInv, AloneInv
  <2> QED BY <1>4, <2>2
<1> QED BY <1>5, <1>6, <1>7 DEF BookInv

LEMMA BookStepKept ==
  ASSUME TypeInv, FileInv, DataInv, BookInv, [Next]_vars
  PROVE  BookInv'
<1>1. CASE UNCHANGED vars
  BY <1>1, BookFrame DEF vars, dataVars, procVars, clockVars
<1>2. CASE Tick
  <2>1. PICK hs : StartCollects(hs, 0, now')
    BY <1>2 DEF Tick
  <2> QED BY <1>2, <2>1, BookStart DEF Tick, procVars
<1>3. CASE PageStep \/ Cancel \/ \E op : Open(op)
  <2>1. UNCHANGED <<site, dataVars, procVars, clockVars>>
    BY <1>3 DEF PageStep, CopyBegins, CopyEnds, Launch, ConnectionLost, Pull, PullFails, Cancel, Open
  <2> QED BY <2>1, BookFrame DEF dataVars, procVars, clockVars
<1>4. ASSUME NEW h \in Hosts, ScriptStep(h) PROVE BookInv'
  <2>1. UNCHANGED <<site, procs, burned, now>>
    BY <1>4 DEF ScriptStep, procVars, clockVars
  <2>2. UNCHANGED <<files, collects, overlapped>> \/ \E no : StartCollects({h}, no, now)
    BY <1>4 DEF ScriptStep, Install, InstallEnds, RemoveTmp, WriteCron, SmokeTest, SmokeTestEnds, RejectUninstall
  <2>3. ASSUME NEW no, StartCollects({h}, no, now) PROVE BookInv'
    BY <2>1, <2>3, BookStart
  <2> QED BY <2>1, <2>2, <2>3, BookFrame
<1>5. ASSUME NEW h \in Hosts, Prune(h) PROVE BookInv'
  BY <1>5, BookFrame DEF Prune, procVars
<1>6. ASSUME NEW h \in Hosts, CollectStep(h) PROVE BookInv'
  BY <1>6, BookSample, BookEnds DEF CollectStep
<1>7. ASSUME NEW h \in Hosts, NEW p \in S.pids, Fork(h, p) PROVE BookInv'
  <2>1. PICK svc \in S.services :
          procs' = [procs EXCEPT ![h][p] =
                     [f \in DOMAIN svc \cup {"cpu"} |-> IF f = "cpu" THEN 0 ELSE svc[f]]]
    BY <1>7 DEF Fork
  <2> DEFINE q == [f \in DOMAIN svc \cup {"cpu"} |-> IF f = "cpu" THEN 0 ELSE svc[f]]
  <2>2. IsProcess(q) /\ q.cpu = 0
    BY DEF IsProcess
  <2> HIDE DEF q
  <2>3. procs' = [procs EXCEPT ![h][p] = q]
    BY <2>1 DEF q
  <2>4. UNCHANGED <<site, files, collects, burned, now, overlapped>>
    BY <1>7 DEF Fork, dataVars, clockVars
  <2> QED BY <2>2, <2>3, <2>4, BookProcess
<1>8. ASSUME NEW h \in Hosts, NEW p \in S.pids, Exit(h, p) PROVE BookInv'
  <2>1. /\ procs' = [procs EXCEPT ![h][p] = NoProcess]
        /\ UNCHANGED <<site, files, collects, burned, now, overlapped>>
    BY <1>8 DEF Exit, dataVars, clockVars
  <2> QED BY <2>1, BookProcess
<1> QED BY <1>1, <1>2, <1>3, <1>4, <1>5, <1>6, <1>7, <1>8, BookBurn DEF Next, HostStep

-----------------------------------------------------------------------------
(* A fetched directory has finitely many records, each of them one of the  *)
(* host's own.                                                             *)
LEMMA FiniteRecords ==
  ASSUME NEW dir, IsFiniteSet(DOMAIN dir), \A d \in DOMAIN dir : IsSequence(dir[d])
  PROVE  IsFiniteSet(DOMAIN load_dir(dir))
<1> DEFINE lines == [d \in DOMAIN dir |-> {d} \X DOMAIN dir[d]]
           All == {lines[d] : d \in DOMAIN dir}
<1>1. ASSUME NEW d \in DOMAIN dir PROVE IsFiniteSet(lines[d])
  <2>1. PICK n \in Nat : DOMAIN dir[d] = 1 .. n
    BY DEF IsSequence
  <2>2. IsFiniteSet(1 .. n)
    BY FS_Interval
  <2>4. IsFiniteSet({d})
    BY FS_Singleton, Zenon
  <2>3. IsFiniteSet({d} \X (1 .. n))
    BY <2>2, <2>4, FS_Product
  <2> QED BY <2>1, <2>3
<1>2. IsFiniteSet(All)
  <2>1. lines \in Surjection(DOMAIN dir, All)
    BY DEF Surjection
  <2> HIDE DEF lines, All
  <2> QED BY <2>1, FS_Surjection
<1>3. \A at : IsRecord(dir, at) => at \in UNION All
  BY DEF IsRecord
<1>4. \A T \in All : IsFiniteSet(T)
  BY <1>1
<1> HIDE DEF All
<1>5. IsFiniteSet(UNION All)
  BY <1>2, <1>4, FS_UNION
<1>6. DOMAIN load_dir(dir) \subseteq UNION All
  BY <1>3, RecordsOf
<1> QED BY <1>5, <1>6, FS_Subset

LEMMA FetchedRecords ==
  ASSUME TypeInv, FileInv, DataInv, NEW h \in Hosts, \A g \in Hosts \ {h} : HostName[g] # HostName[h]
  PROVE  LET R == load_dir(Local(HostName[h]))
         IN  /\ IsFiniteSet(DOMAIN R) /\ DOMAIN R \subseteq DOMAIN Written(h)
             /\ \A at \in DOMAIN R : R[at] = Written(h)[at]
<1> DEFINE name == HostName[h]
           dir == Local(name)
           file == files[h]
<1>1. \A d \in DOMAIN dir : <<name, d>> \in DOMAIN local /\ dir[d] = local[<<name, d>>]
  BY DEF FileInv, Local
<1>2. ASSUME NEW d \in DOMAIN dir
      PROVE  /\ IsSequence(dir[d]) /\ IsSequence(file[d])
             /\ d \in DOMAIN file /\ Begins(dir[d], file[d])
  <2> DEFINE f == <<name, d>>
  <2>1. f \in DOMAIN local /\ f[1] = name /\ f[2] = d /\ dir[d] = local[f]
    BY <1>1
  <2> HIDE DEF f, dir
  <2>2. PICK g \in Hosts : HostName[g] = name /\ d \in DOMAIN files[g] /\ Begins(dir[d], files[g][d])
    BY <2>1 DEF DataInv
  <2>3. g = h
    BY <2>2
  <2>4. IsSequence(dir[d]) /\ IsSequence(file[d])
    BY <2>1, <2>2, <2>3 DEF DataInv
  <2> QED BY <2>2, <2>3, <2>4
<1> HIDE DEF dir
<1>3. IsFiniteSet(DOMAIN dir)
  <2>1. DOMAIN dir \subseteq 0 .. Today
    BY <1>2 DEF FileInv
  <2>2. Today \in Nat
    <3>1. now \in Nat
      BY DEF FileInv
    <3> QED BY <3>1, Days DEF Today
  <2>3. IsFiniteSet(0 .. Today)
    <3>1. Today \in Int /\ 0 \in Int
      BY <2>2
    <3> QED BY <3>1, FS_Interval
  <2> QED BY <2>1, <2>3, FS_Subset
<1>4. IsFiniteSet(DOMAIN load_dir(dir))
  BY <1>2, <1>3, FiniteRecords
<1>5. ASSUME NEW at, IsRecord(dir, at)
      PROVE  IsRecord(file, at) /\ dir[at[1]][at[2]] = file[at[1]][at[2]]
  <2> DEFINE got == dir[at[1]]
             all == file[at[1]]
             i == at[2]
  <2>1. at[1] \in DOMAIN dir /\ i \in DOMAIN got /\ got[i] \notin {Torn, Garbled} /\ at = <<at[1], i>>
    BY <1>5 DEF IsRecord
  <2>2. /\ IsSequence(got) /\ IsSequence(all) /\ Begins(got, all) /\ at[1] \in DOMAIN file
    BY <1>2, <2>1
  <2> HIDE DEF got, all, i
  <2>3. PICK m \in Nat, n \in Nat :
          /\ Len(got) = m /\ Len(all) = n /\ DOMAIN got = 1 .. m /\ DOMAIN all = 1 .. n
    BY <2>2 DEF IsSequence
  <2>4. i \in DOMAIN all /\ all[i] = got[i]
    BY <2>1, <2>2, <2>3 DEF Begins
  <2> QED BY <2>1, <2>2, <2>4 DEF IsRecord, got, all, i
<1>6. ASSUME NEW at \in DOMAIN load_dir(dir)
      PROVE  at \in DOMAIN load_dir(file) /\ load_dir(dir)[at] = load_dir(file)[at]
  BY <1>5, RecordsOf
<1> QED BY <1>4, <1>6 DEF dir, Written

-----------------------------------------------------------------------------
(* The theorems.                                                           *)

LEMMA InvInit == Init => IInv
<1> SUFFICES ASSUME Init PROVE IInv
  OBVIOUS
<1>1. site \in DOMAIN Sites
  BY DEF Init
<1>2. S.installed \in BOOLEAN /\ S.start \in Nat /\ Hosts \subseteq DOMAIN HostName
  BY <1>1, SiteFacts
<1>3. TypeInv
  <2>1. page = [op |-> "none", no |-> 0, left |-> <<>>, step |-> "ended"]
    BY Zenon DEF Init
  <2>2. <<>> \in Seq(Hosts)
    OBVIOUS
  <2>3. page \in [op : Ops, no : Nat, left : Seq(Hosts), step : Idle \cup Underway]
    BY <2>1, <2>2 DEF Ops, Idle
  <2>4. /\ shown \in [Hosts -> {"", "red", "green"}]
        /\ tmp \in [Hosts -> Contents] /\ bin \in [Hosts -> Contents]
        /\ scripts \in [Hosts -> SUBSET Scripts]
    BY DEF Init, Contents
  <2>5. cron \in [Hosts -> BOOLEAN] /\ raced \in [Hosts -> BOOLEAN]
    BY <1>2, Zenon DEF Init
  <2> QED BY <1>1, <2>3, <2>4, <2>5 DEF Init, TypeInv
<1>4. PageInv /\ ~Busy
  <2>1. /\ page.op = "none" /\ page.no = 0 /\ page.left = <<>> /\ page.step = "ended"
        /\ opened = 0
    BY DEF Init
  <2>2. Distinct(<<>>)
    BY DEF Distinct
  <2>3. \A h \in Hosts : shown[h] = ""
    BY DEF Init
  <2>4. ~Busy /\ ToSet(page.left) = {}
    BY <2>1 DEF Busy, ToSet
  <2>5. ~(opened > 0)
    BY <2>1
  <2> QED BY <2>1, <2>2, <2>3, <2>4, <2>5 DEF PageInv, Underway
<1>5. OwnerInv
  BY DEF Init, OwnerInv
<1>6. HostInv
  BY <1>4 DEF Init, HostInv, HostOK, Sound, Deploys
<1>7. ShownInv /\ MeetInv
  BY <1>4 DEF Init, ShownInv, ShownOK, MeetInv, MeetOK, Reached, Own
<1>8. FileInv
  BY <1>2 DEF Init, FileInv
<1> QED BY <1>3, <1>4, <1>5, <1>6, <1>7, <1>8 DEF IInv

LEMMA InvStep == IInv /\ [Next]_vars => IInv'
BY TypeStep, PageStepKept, OwnerStepKept, HostStepKept, ShownStepKept, MeetStepKept,
   FileStepKept DEF IInv

(* The inductive invariant holds of every site.                            *)
THEOREM FleetInvariant == Spec => []IInv
<1> QED BY InvInit, InvStep, PTL DEF Spec

(* Every variable holds a value of its type.                               *)
THEOREM FleetTypes == Spec => []FleetTypeOK
<1>1. IInv => FleetTypeOK
  BY DEF IInv, TypeInv, PageInv, FileInv, CollectOK, FleetTypeOK, Ops, Idle, Underway, Contents
<1> QED BY <1>1, FleetInvariant, PTL

(* On a fit host that no two deployments met on, cron runs no collector    *)
(* that is missing or not whole, whatever connections are lost and         *)
(* wherever the pages are left.                                            *)
THEOREM CronIsSound == Spec => []CronHasBinary
<1>1. IInv => CronHasBinary
  <2> SUFFICES ASSUME IInv, NEW h \in Hosts \ S.unfit, cron[h], ~raced[h], ~Replacing(h)
               PROVE  bin[h] = "whole"
    BY DEF CronHasBinary
  <2>1. HostOK(h)
    BY DEF IInv, HostInv
  <2>2. CASE Deploys(h) = {}
    BY <2>1, <2>2 DEF HostOK, Sound
  <2>3. ASSUME NEW s \in Deploys(h) PROVE bin[h] = "whole"
    BY <2>1, <2>3 DEF HostOK, Stage, Sound, Replacing, Deploys
  <2> QED BY <2>2, <2>3
<1> QED BY <1>1, FleetInvariant, PTL

(* On any host, unfit ones included, that no two deployments met on, a     *)
(* cron file is only written when the binary is whole.                     *)
THEOREM CronIsLast == Spec => CronComesLast
<1> DEFINE OnlyThen == \A h \in Hosts : ~cron[h] /\ cron'[h] /\ ~raced[h] => bin[h] = "whole"
<1>1. IInv /\ [Next]_vars => [OnlyThen]_vars
  <2> SUFFICES ASSUME IInv, [Next]_vars, NEW h \in Hosts, ~cron[h], cron'[h], ~raced[h]
               PROVE  bin[h] = "whole"
    OBVIOUS
  <2>1. ~UNCHANGED cron
    OBVIOUS
  <2>2. PICK g \in Hosts : ScriptStep(g)
    <3>1. ASSUME NEW g \in Hosts, HostStep(g) PROVE UNCHANGED cron
      BY <3>1, HostStepFrame DEF IInv, remoteVars
    <3> QED BY <2>1, <3>1 DEF Next, Open, PageStep, CopyBegins, CopyEnds, Launch, ConnectionLost, Pull,
                              PullFails, Cancel, Tick, vars, remoteVars
  <2>3. PICK s \in scripts[g] : WriteCron(g, s)
    BY <2>1, <2>2 DEF ScriptStep, Install, InstallEnds, RemoveTmp, SmokeTest, SmokeTestEnds, RejectUninstall
  <2>4. g = h /\ s.op = "deploy" /\ s.step = 4
    BY <2>3 DEF WriteCron, IInv, TypeInv
  <2>5. Stage(h, s)
    BY <2>4 DEF IInv, HostInv, HostOK, Deploys
  <2> QED BY <2>4, <2>5 DEF Stage
<1>2. CronComesLast <=> [][OnlyThen]_vars
  BY DEF CronComesLast
<1> QED BY <1>1, <1>2, FleetInvariant, PTL DEF Spec

(* What a page shows in green is so, and stays so although commands of     *)
(* earlier deployments end late, but for the hosts CronHasBinary exempts.  *)
THEOREM GreenIsSo == Spec => []GreenIsTrue
<1>1. IInv => GreenIsTrue
  <2> SUFFICES ASSUME IInv, NEW h \in Hosts, shown[h] = "green"
               PROVE  /\ page.op = "deploy" /\ ~(raced[h] /\ h \in S.unfit) =>
                           /\ bin[h] = "whole" \/ (raced[h] /\ Replacing(h))
                           /\ cron[h] /\ DOMAIN files[h] # {}
                      /\ page.op = "pull" => \E f \in DOMAIN local : f[1] = HostName[h]
    BY DEF GreenIsTrue
  <2>1. ShownOK(h) /\ MeetOK(h)
    BY DEF IInv, ShownInv, MeetInv
  <2>2. CASE page.op = "deploy" /\ ~raced[h]
    BY <2>1, <2>2 DEF ShownOK, Deployed
  <2>3. CASE page.op = "deploy" /\ raced[h] /\ h \notin S.unfit
    <3>1. Reached(h, 2) /\ Reached(h, 5) /\ Reached(h, 6)
      BY <2>3 DEF Reached
    <3> QED BY <2>1, <2>3, <3>1 DEF MeetOK, Deploys, Replacing
  <2> QED BY <2>1, <2>2, <2>3 DEF ShownOK, HasData
<1> QED BY <1>1, FleetInvariant, PTL

(* A page that ended has shown something of every host, and a deployment   *)
(* nothing red of one that answers, is fit and has seen no other.          *)
THEOREM HostsAreTried == Spec => []EveryHostIsTried
<1>1. IInv => EveryHostIsTried
  <2> SUFFICES ASSUME IInv PROVE EveryHostIsTried
    OBVIOUS
  <2>1. ASSUME page.step = "ended", opened > 0, NEW h \in Hosts PROVE shown[h] # ""
    <3>1. page.left = <<>>
      BY <2>1 DEF IInv, PageInv, Busy, Underway
    <3>2. h \notin ToSet(page.left)
      BY <3>1 DEF ToSet
    <3> QED BY <2>1, <3>2 DEF IInv, PageInv
  <2>2. ASSUME page.op = "deploy", ~S.tight, NEW h \in Hosts \ (S.faulty \cup S.unfit), shown[h] = "red"
        PROVE  raced[h]
    BY <2>2 DEF IInv, ShownInv, ShownOK
  <2> QED BY <2>1, <2>2 DEF EveryHostIsTried
<1> QED BY <1>1, FleetInvariant, PTL

(* In hours, the limit of the prune lies in the day KeepDays before today. *)
LEMMA ExpiredDays ==
  ASSUME NEW d \in Nat, NEW today \in Nat, NEW hour \in Int, NEW zone \in Int, NEW keep \in Nat,
         hour - zone \in -23..24
  PROVE  /\ Expired(d, today, hour, zone, keep) => d <= today - keep
         /\ ~Expired(d, today, hour, zone, keep) => d >= today - keep
BY DEF Expired

(* The prune deletes no file of the last KeepDays days and leaves none     *)
(* that is older, in any time zone.                                        *)
THEOREM PruneIsSound == Spec => WeekIsKept
<1> DEFINE Kept == \A h \in Hosts : due[h] /\ ~due'[h] =>
                     /\ \A d \in pruned'[h] \ pruned[h] : d <= Today - KeepDays
                     /\ \A d \in DOMAIN files[h] \ pruned'[h] : d >= Today - KeepDays
<1>1. IInv /\ [Next]_vars => [Kept]_vars
  <2> SUFFICES ASSUME IInv, [Next]_vars, NEW h \in Hosts, due[h], ~due'[h]
               PROVE  /\ \A d \in pruned'[h] \ pruned[h] : d <= Today - KeepDays
                      /\ \A d \in DOMAIN files[h] \ pruned'[h] : d >= Today - KeepDays
    OBVIOUS
  <2>1. ~UNCHANGED due
    OBVIOUS
  <2>2. ~Tick
    BY DEF Tick
  <2>3. \A g \in Hosts : ~ScriptStep(g)
    BY <2>1, ScriptStepFrame
  <2>4. PICK g \in Hosts : HostStep(g)
    BY <2>1, <2>2, <2>3 DEF Next, Open, PageStep, CopyBegins, CopyEnds, Launch, ConnectionLost, Pull,
                            PullFails, Cancel, vars, clockVars
  <2>5. Prune(g)
    BY <2>1, <2>4 DEF HostStep, CollectStep, SampleNext, CollectEnds, Fork, Exit, Burn, clockVars
  <2>6. g = h
    BY <2>5 DEF Prune
  <2>7. pruned'[h] = pruned[h] \cup
          {d \in DOMAIN files[h] : Expired(d, Today, PruneHour, S.zone, KeepDays)}
    BY <2>5, <2>6 DEF Prune, IInv, FileInv
  <2>8. /\ Today \in Nat /\ KeepDays \in Nat /\ PruneHour \in Int
        /\ S.zone \in Int /\ PruneHour - S.zone \in -23..24
        /\ DOMAIN files[h] \subseteq Nat
    <3>1. now \in Nat /\ site \in DOMAIN Sites /\ DOMAIN files[h] \subseteq 0..Today
      BY DEF IInv, TypeInv, FileInv
    <3>2. Today \in Nat
      BY <3>1, Days DEF IInv, Today
    <3>3. S.zone \in Int /\ PruneHour - S.zone \in -23..24
      BY <3>1, SiteFacts, Zenon
    <3>4. KeepDays \in Nat /\ PruneHour \in Int
      BY PruneAssumption
    <3> QED BY <3>1, <3>2, <3>3, <3>4
  <2>9. \A d \in DOMAIN files[h] :
          /\ Expired(d, Today, PruneHour, S.zone, KeepDays) => d <= Today - KeepDays
          /\ ~Expired(d, Today, PruneHour, S.zone, KeepDays) => d >= Today - KeepDays
    BY <2>8, ExpiredDays
  <2> QED BY <2>7, <2>9
<1> QED BY <1>1, FleetInvariant, PTL DEF Spec, WeekIsKept

(* Every fetched file is, line by line, the beginning of what a host of    *)
(* that name wrote that day, however often scp was cut off and whatever    *)
(* the collectors append meanwhile.                                        *)
THEOREM FetchedIsTrue == Spec => []PulledIsTrue
<1>1. Init => DataInv
  BY DEF Init, DataInv
<1>2. IInv /\ DataInv /\ [Next]_vars => DataInv'
  BY DataStepKept DEF IInv
<1>3. DataInv => PulledIsTrue
  BY DEF DataInv, PulledIsTrue
<1> QED BY <1>1, <1>2, <1>3, FleetInvariant, PTL DEF Spec

(* The report never claims more processor time than was used on the host,  *)
(* whatever processes come and go, numbers are used again, lines are torn  *)
(* and files fetched in part, as long as no two collectors ran at once.    *)
THEOREM LoadIsNeverFalse == Spec => []NoFalseLoad
<1>1. IInv /\ DataInv /\ BookInv => NoFalseLoad
  <2> SUFFICES ASSUME IInv, DataInv, BookInv, NEW h \in Hosts,
                      \A g \in Hosts \ {h} : HostName[g] # HostName[h], ~overlapped[h]
               PROVE  SumFunction(aggregate_by_service(load_dir(Local(HostName[h])))) <= burned[h]
    BY DEF NoFalseLoad
  <2> DEFINE R == load_dir(Local(HostName[h]))
             W == Written(h)
             b == burned[h]
  <2>1. /\ IsFiniteSet(DOMAIN R) /\ DOMAIN R \subseteq DOMAIN W
        /\ \A at \in DOMAIN R : R[at] = W[at]
    BY FetchedRecords DEF IInv
  <2>2. RecordsOK(W, S.pids) /\ b \in Nat
    BY DEF BookInv, RecordInv, ProcessInv
  <2>3. Balanced(W, procs[h], b)
    BY DEF BookInv, BalanceInv
  <2>4. PICK owner, stamp : Ledger(W, procs[h], b, owner, stamp)
    BY <2>3 DEF Balanced
  <2> HIDE DEF R, W, b
  <2>5. SumFunction(aggregate_by_service(R)) <= b
    BY <2>1, <2>2, <2>4, LedgerBalances
  <2> QED BY <2>5 DEF R, b
<1>2. IInv /\ DataInv /\ BookInv /\ [Next]_vars => BookInv'
  BY BookStepKept DEF IInv
<1>3. Init => DataInv
  BY DEF Init, DataInv
<1>4. IInv /\ DataInv /\ [Next]_vars => DataInv'
  BY DataStepKept DEF IInv
<1> QED BY <1>1, <1>2, <1>3, <1>4, BookInit, FleetInvariant, PTL DEF Spec
=============================================================================
