---------------------------- MODULE RouteMigration ----------------------------
(***************************************************************************)
(* main() and mask_convertor() of src/smc/examples/add_sidewinder_routes.py *)
(* The script logs in, loads the engine, opens the routes file and, for    *)
(* each line matching `route=<net>/<mask> gateway=<gw> distance...`,       *)
(* converts the dotted mask to a prefix length and calls                   *)
(* engine.add_route(gateway, network).  A result without href is logged as *)
(* a failed route and the loop goes on; any exception (BaseException)      *)
(* ends the loop, sets return_code = 1, and the finally clause logs out.   *)
(* A file line is abstracted to what the loop tells apart: no match, a     *)
(* route whose mask int() cannot parse, or a route (network, dotted mask   *)
(* as four octets, gateway).                                               *)
(***************************************************************************)
EXTENDS Integers, Sequences, Functions

CONSTANTS
  Files,        \* the routes files the script may read (sequences of lines)
  Unroutable,   \* gateways the engine has no interface for: add_route fails
  AddMayRaise   \* TRUE: add_route may raise (before or after the server commits)

ASSUME AddMayRaise \in BOOLEAN

(***************************************************************************)
(* mask_convertor: "net/a.b.c.d" -> "net/<number of 1 bits in a,b,c,d>".   *)
(* bin(int(x)).count("1") is the population count of each octet.           *)
(***************************************************************************)
RECURSIVE PopCount(_)
PopCount(n) == IF n = 0 THEN 0 ELSE (n % 2) + PopCount(n \div 2)

\* Mutant: only the first three octets are summed.
CidrFirstThree(mask) == SumFunction([j \in 1 .. 3 |-> PopCount(mask[j])])

Cidr(mask) == SumFunction([j \in 1 .. 4 |-> PopCount(mask[j])])

MaskConvertor(net, mask) == <<net, Cidr(mask)>>

\* Mutant: engine.add_route(network, gateway), the arguments swapped.
RouteOfSwapped(line) == [dest |-> <<line.gw, Cidr(line.mask)>>, gw |-> line.net]

\* The route add_route creates for a route line.
RouteOf(line) == [dest |-> MaskConvertor(line.net, line.mask), gw |-> line.gw]

VARIABLES
  pc,       \* where main() is
  file,     \* the contents of the routes file
  i,        \* the line the loop is at
  log,      \* per line: "todo", "skipped", "added" or "failed" (as logged)
  routes,   \* server side: routes on the engine
  session,  \* server side: the script's session is logged in
  rc        \* the local return_code

vars == <<pc, file, i, log, routes, session, rc>>

LineNo == 1 .. Len(file)

\* The route lines of all files the script may read.
RouteLines == UNION {{f[k] : k \in {j \in DOMAIN f : f[j].kind = "route"}} : f \in Files}

TypeOK ==
  /\ pc \in {"parse", "login", "prepare", "loop", "finally", "returned", "raised"}
  /\ file \in Files
  /\ i \in 1 .. Len(file) + 1
  /\ log \in [LineNo -> {"todo", "skipped", "added", "failed"}]
  /\ routes \subseteq [dest : {l.net : l \in RouteLines} \X (0 .. 32),
                      gw : {l.gw : l \in RouteLines}]
  /\ session \in BOOLEAN
  /\ rc \in {0, 1}

Init ==
  /\ pc = "parse"
  /\ file \in Files
  /\ i = 1
  /\ log = [k \in LineNo |-> "todo"]
  /\ routes = {}
  /\ session = FALSE
  /\ rc = 0

\* An exception in the try block: `except BaseException` sets return_code.
Abort == pc' = "finally" /\ rc' = 1

\* parse_command_line_arguments() runs before the try: its sys.exit(1) for
\* --help or a missing --api-url leaves main() with no session to close.
ParseArguments ==
  /\ pc = "parse"
  /\ pc' \in {"login", "raised"}
  /\ UNCHANGED <<file, i, log, routes, session, rc>>

\* session.login(...) is outside the try: its exception leaves main().
Login ==
  /\ pc = "login"
  /\ \/ session' = TRUE /\ pc' = "prepare"
     \/ pc' = "raised" /\ UNCHANGED session
  /\ UNCHANGED <<file, i, log, routes, rc>>

\* Engine(firewall).load() raises LoadEngineFailed for an unknown engine;
\* open(filename) raises for a missing file.
Prepare ==
  /\ pc = "prepare"
  /\ \/ pc' = "loop" /\ UNCHANGED rc
     \/ Abort
  /\ UNCHANGED <<file, i, log, routes, session>>

\* Leave the loop after the last line of the file.
NextLine == IF i = Len(file) THEN pc' = "finally" ELSE UNCHANGED pc

Record(outcome) == log' = [log EXCEPT ![i] = outcome]

\* Mutant: a route result is taken as success whatever its href.
ProcessLineAnyResult ==
  LET line == file[i] IN
  /\ pc = "loop" /\ i <= Len(file)
  /\ \/ line.kind = "other" /\ Record("skipped") /\ NextLine /\ i' = i + 1
        /\ UNCHANGED <<routes, rc>>
     \/ line.kind = "badmask" /\ Abort /\ UNCHANGED <<log, routes, i>>
     \/ line.kind = "route" /\ Record("added") /\ NextLine /\ i' = i + 1
        /\ routes' = (IF line.gw \in Unroutable THEN routes ELSE routes \cup {RouteOf(line)})
        /\ UNCHANGED rc
  /\ UNCHANGED <<file, session>>

\* Mutant: the loop breaks at the first rejected route.
ProcessLineStopOnReject ==
  LET line == file[i] IN
  /\ pc = "loop" /\ i <= Len(file)
  /\ \/ line.kind = "other" /\ Record("skipped") /\ NextLine /\ i' = i + 1
        /\ UNCHANGED <<routes, rc>>
     \/ line.kind = "badmask" /\ Abort /\ UNCHANGED <<log, routes, i>>
     \/ /\ line.kind = "route" /\ line.gw \notin Unroutable
        /\ routes' = routes \cup {RouteOf(line)}
        /\ Record("added") /\ NextLine /\ i' = i + 1 /\ UNCHANGED rc
     \/ /\ line.kind = "route" /\ line.gw \in Unroutable
        /\ Record("failed") /\ pc' = "finally" /\ i' = i + 1
        /\ UNCHANGED <<routes, rc>>
  /\ UNCHANGED <<file, session>>

(***************************************************************************)
(* One line of the file.  A non-matching line is passed over; int() of a  *)
(* non-numeric octet raises ValueError; a route either gets an href        *)
(* (added), comes back without one (failed: logged with result.msg), or    *)
(* add_route raises, the server having committed the route or not.         *)
(***************************************************************************)
ProcessLine ==
  LET line == file[i] IN
  /\ pc = "loop" /\ i <= Len(file)
  /\ \/ line.kind = "other" /\ Record("skipped") /\ NextLine /\ i' = i + 1
        /\ UNCHANGED <<routes, rc>>
     \/ line.kind = "badmask" /\ Abort /\ UNCHANGED <<log, routes, i>>
     \/ /\ line.kind = "route" /\ line.gw \notin Unroutable
        /\ routes' = routes \cup {RouteOf(line)}
        /\ Record("added") /\ NextLine /\ i' = i + 1 /\ UNCHANGED rc
     \/ /\ line.kind = "route" /\ line.gw \in Unroutable
        /\ Record("failed") /\ NextLine /\ i' = i + 1
        /\ UNCHANGED <<routes, rc>>
     \/ /\ line.kind = "route" /\ AddMayRaise
        /\ \E committed \in BOOLEAN :
             routes' = IF committed /\ line.gw \notin Unroutable
                         THEN routes \cup {RouteOf(line)} ELSE routes
        /\ Abort /\ UNCHANGED <<log, i>>
  /\ UNCHANGED <<file, session>>

\* An empty file: the for loop has nothing to do.
EmptyFile ==
  /\ pc = "loop" /\ Len(file) = 0
  /\ pc' = "finally"
  /\ UNCHANGED <<file, i, log, routes, session, rc>>

\* finally: session.logout(); return return_code.
Logout ==
  /\ pc = "finally"
  /\ session' = FALSE /\ pc' = "returned"
  /\ UNCHANGED <<file, i, log, routes, rc>>

Terminated == pc \in {"returned", "raised"}

Done == Terminated /\ UNCHANGED vars

\* sys.exit(main()): the process exits with main()'s return code, or with
\* status 1 when main() raised (SystemExit(1) or an uncaught exception).
ExitStatus == IF pc = "returned" THEN rc ELSE 1

Next == ParseArguments \/ Login \/ Prepare \/ ProcessLine \/ EmptyFile \/ Logout \/ Done

Spec == Init /\ [][Next]_vars

(***************************************************************************)
(* Properties                                                              *)
(***************************************************************************)

\* Reference: the dotted form of prefix length p.
MaskOfPrefix(p) ==
  [j \in 1 .. 4 |-> LET ones == IF p - 8 * (j - 1) > 8 THEN 8
                                ELSE IF p - 8 * (j - 1) < 0 THEN 0
                                ELSE p - 8 * (j - 1)
                    IN 256 - 2^(8 - ones)]

\* The prefix length a contiguous dotted mask stands for.
PrefixOf(mask) == CHOOSE p \in 0 .. 32 : MaskOfPrefix(p) = mask

\* mask_convertor turns every contiguous netmask into its prefix length, so
\* each route add_route puts on the engine is the network, prefix and
\* gateway written on a line of the file.
MaskConvertorMatchesPrefix ==
  /\ \A p \in 0 .. 32 : Cidr(MaskOfPrefix(p)) = p
  /\ \A r \in routes : \E k \in LineNo :
       /\ file[k].kind = "route"
       /\ r = [dest |-> <<file[k].net, PrefixOf(file[k].mask)>>, gw |-> file[k].gw]

\* Process exit status 0 means every line of the file was dealt with.
ExitZeroMeansFileDone ==
  Terminated /\ ExitStatus = 0 => \A k \in LineNo : log[k] # "todo"

\* The log tells the truth about the engine: a route logged as added is on
\* it, and a route on it was logged as added, or is the one whose add_route
\* raised, in a run that ended with status 1.
ServerAgreesWithLog ==
  /\ \A k \in LineNo : log[k] = "added" => RouteOf(file[k]) \in routes
  /\ \A r \in routes : \E k \in LineNo :
       /\ file[k].kind = "route" /\ RouteOf(file[k]) = r
       /\ log[k] = "added" \/ (rc = 1 /\ log[k] = "todo")

=============================================================================
