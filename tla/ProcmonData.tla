----------------------------- MODULE ProcmonData -----------------------------
(***************************************************************************)
(* What procmon writes and what its reporter reads back: one JSON line for *)
(* a process and a moment, a file for a host and a day, and the numbers    *)
(* the report is made of.                                                  *)
(*                                                                         *)
(* A process is [comm, main, flag, cwd, container, cpu]: main and flag are *)
(* what its command line gives away, the jar or class of a JVM and the     *)
(* value of --name; "" stands for none.                                    *)
(***************************************************************************)
EXTENDS Integers, Sequences, SequencesExt, FiniteSetsExt

CONSTANTS
  Torn,      \* a line whose end was not written
  Garbled    \* a line that is no JSON

-----------------------------------------------------------------------------
(* samplePid reads six files of a process one after the other.  done of    *)
(* them succeed before it is gone; the next is not found, or found and not *)
(* readable any more.                                                      *)

Reads == <<"stat", "status", "io", "cmdline", "cwd", "cgroup">>
Whole == Len(Reads)
Losses == {"ENOENT", "ESRCH"}

(* Only a missing file counts as gone, and only the first one ends the     *)
(* sample then; another error ends it in any of the first four.            *)
Skipped(done, loss) == done = 0 \/ (loss = "ESRCH" /\ done < 4)

KnownAfter(done, i, value) == IF done >= i THEN value ELSE ""

samplePid(ts, pid, p, done) ==
  [ts |-> ts, pid |-> pid, comm |-> p.comm, cpu |-> p.cpu,
   main |-> KnownAfter(done, 4, p.main), flag |-> KnownAfter(done, 4, p.flag),
   cwd |-> KnownAfter(done, 5, p.cwd), container |-> KnownAfter(done, 6, p.container)]

(* The encoder appends a line; what follows an unfinished line becomes     *)
(* part of it.                                                             *)
Encode(file, line) ==
  IF file # <<>> /\ Last(file) = Torn
  THEN Append(Front(file), IF line = Torn THEN Torn ELSE Garbled)
  ELSE Append(file, line)

-----------------------------------------------------------------------------
(* prune: the date in a file's name is taken as a midnight in UTC, the     *)
(* limit is the local time of the run, keep days ago.                      *)

ExpiredLate(day, today, hour, zone, keep) ==   \* faulty variant: a day is over at its beginning
  24 * day < 24 * (today - keep + 1) + hour - zone
Expired(day, today, hour, zone, keep) == 24 * day < 24 * (today - keep) + hour - zone

-----------------------------------------------------------------------------
(* The reporter.                                                           *)

(* The records in the files of a host, by their day and line, which is the *)
(* order they are read in.                                                 *)
load_dir(dir) ==
  LET lines == UNION {{<<d, i>> : i \in DOMAIN dir[d]} : d \in DOMAIN dir}
  IN  [at \in {l \in lines : dir[l[1]][l[2]] \notin {Torn, Garbled}} |-> dir[at[1]][at[2]]]

DefaultRoots == {"", "/", "/root", "/home/op"}

normalize_key(r) ==
  IF r.container # "" THEN <<r.container, r.comm>>
  ELSE IF r.comm = "java" /\ r.main # "" THEN <<"java", r.main>>
  ELSE IF r.flag # "" THEN <<r.comm, r.flag>>
  ELSE IF r.cwd \notin DefaultRoots THEN <<r.comm, r.cwd>>
  ELSE <<r.comm>>

(* A process is followed by its number, in the order of time, samples of   *)
(* the same second in the order they were read; a counter that goes        *)
(* backwards gives no number.                                              *)
Before(records, j, i) ==
  \/ records[j].ts < records[i].ts
  \/ records[j].ts = records[i].ts /\ (j[1] < i[1] \/ (j[1] = i[1] /\ j[2] < i[2]))

Latest(records, js) == {j \in js : ~\E k \in js : Before(records, j, k)}
PreviousOfAny(records, i) ==   \* faulty variant: not grouped by process
  Latest(records, {j \in DOMAIN records : Before(records, j, i)})
Previous(records, i) ==
  Latest(records, {j \in DOMAIN records : /\ records[j].pid = records[i].pid
                                          /\ Before(records, j, i)})

compute_delta(records, i) ==
  Max({0} \cup {records[i].cpu - records[j].cpu : j \in Previous(records, i)})

(* The processor time charged to each service.                             *)
aggregate_by_service(records) ==
  LET key == [i \in DOMAIN records |-> normalize_key(records[i])]
      delta == [i \in DOMAIN records |-> compute_delta(records, i)]
  IN  [k \in Range(key) |-> SumFunctionOnSet(delta, {i \in DOMAIN records : key[i] = k})]
=============================================================================
