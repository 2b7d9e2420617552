---------------------------- MODULE MCProcmonFleet ----------------------------
(* Small sites.  Two deploy and remove over hosts that fail and hang, two  *)
(* where commands fail; three look at the prune in the zones where it      *)
(* differs most; the others at hosts whose processes come and go.          *)
EXTENDS ProcmonFleet

CONSTANTS h1, h2, h3

MCHostName == (h1 :> "n1") @@ (h2 :> "n2") @@ (h3 :> "n2")

Service(comm, main, flag, cwd, container) ==
  [comm |-> comm, main |-> main, flag |-> flag, cwd |-> cwd, container |-> container]
Order == Service("java", "order", "", "/data/order", "")
Boxed == Service("java", "order", "", "/", "box")
Named == Service("worker", "", "mail", "/root", "")
Plain == Service("sh", "", "", "/home/op", "")
Placed == Service("sh", "", "", "/data/jobs", "")

Base == [hosts |-> <<h1>>, faulty |-> {}, unfit |-> {}, tight |-> FALSE,
         ops |-> {"pull"}, maxPages |-> 2, installed |-> TRUE,
         pids |-> {}, services |-> {}, mortal |-> TRUE, maxBurn |-> 0,
         zone |-> 8, dayLength |-> 2, start |-> 0, maxNow |-> 2]

Pair == [Base EXCEPT !.hosts = <<h1, h2>>, !.faulty = {h1}, !.ops = {"deploy", "uninstall"},
                     !.installed = FALSE, !.maxNow = 0]
Alone == [Pair EXCEPT !.hosts = <<h1>>, !.maxPages = 3]
Full == [Alone EXCEPT !.faulty = {}, !.unfit = {h1}, !.tight = TRUE, !.maxPages = 2,
                      !.installed = TRUE, !.maxNow = 1]
Fresh == [Full EXCEPT !.installed = FALSE]
Twins == [Base EXCEPT !.hosts = <<h2, h3>>, !.faulty = {h3}, !.pids = {1}, !.services = {Plain},
                      !.mortal = FALSE, !.maxNow = 1]
Smoke == [Base EXCEPT !.ops = {"deploy", "pull"}, !.installed = FALSE, !.pids = {1},
                      !.services = {Order}, !.mortal = FALSE, !.maxBurn = 1, !.maxNow = 1]
Zone(z) == [Base EXCEPT !.zone = z, !.dayLength = 1, !.maxNow = 5]
Workers == [Base EXCEPT !.pids = {1, 2}, !.services = {Order}, !.mortal = FALSE,
                        !.maxPages = 1, !.maxBurn = 2]
Reuse == [Base EXCEPT !.pids = {1}, !.services = {Named}, !.maxPages = 1, !.maxBurn = 2]
Lossy == [Base EXCEPT !.pids = {1}, !.services = {Boxed}, !.unfit = {h1}, !.dayLength = 3,
                      !.maxPages = 1, !.maxBurn = 2]
Keys == [Base EXCEPT !.pids = {1}, !.services = {Plain, Placed}, !.maxBurn = 1]

MCSites == [Pair |-> Pair, Alone |-> Alone, Full |-> Full, Fresh |-> Fresh,
            Twins |-> Twins, Smoke |-> Smoke, West |-> Zone(-12), UTC |-> Zone(0),
            East |-> Zone(14), Workers |-> Workers, Reuse |-> Reuse, Lossy |-> Lossy, Keys |-> Keys]
=============================================================================
