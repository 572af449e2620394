------------------------------- MODULE AtaDisk ------------------------------
(***************************************************************************)
(* drivers/ata.rs against the drive it polls.  A request selects the drive *)
(* and the high bits of the address, writes the other registers and the    *)
(* command, moves one sector at a time, and after a write flushes the      *)
(* drive's cache; before every step it waits, for at most WAIT_LIMIT       *)
(* polls, until the drive is not busy.  Interrupts are masked and          *)
(* CHANNEL_LOCK is held, so there is one request at a time; the drive      *)
(* works on its own between any two polls, may fail, may be slower than    *)
(* the limit, and loses its cache with the power.                          *)
(*                                                                         *)
(* The drive is modelled as the driver uses it: ERR stays until a command  *)
(* is accepted, and a command written while data is still to be moved is   *)
(* either ignored or started, as the standard leaves open.                 *)
(***************************************************************************)
EXTENDS Integers, Sequences

CONSTANTS
  MAX_LBA,      \* MAX_LBA28
  LOW,          \* addresses below the bits in the drive/head register, 2^24
  MAX_COUNT,    \* bound: sectors of a request
  WAIT_LIMIT,
  Values,       \* contents of a sector
  Present       \* whether there may be a drive: a set of Booleans

ASSUME AtaDiskAssumption ==
  /\ {MAX_LBA, MAX_COUNT, WAIT_LIMIT} \subseteq Nat /\ LOW \in Nat \ {0}
  /\ Present \subseteq BOOLEAN /\ "none" \notin Values

Sectors == 0..MAX_LBA
None    == "none"

VARIABLES
  present,    \* there is a drive
  medium,     \* what the drive keeps without power
  cache,      \* sectors it has accepted and not yet stored
  drive,      \* its status and the command it works on
  registers,  \* address and count
  request,    \* what the driver was asked for, with the sectors moved so far
  phase,      \* what the driver waits for
  polls,      \* polls in this wait
  result,     \* of the last request
  possible,   \* what each sector may hold, from the requests and their results
  abandoned   \* a request timed out while data was to be moved

vars == <<present, medium, cache, drive, registers, request, phase, polls, result,
          possible, abandoned>>

Idle == [status |-> "ready", err |-> FALSE, command |-> None, at |-> 0, left |-> 0,
         buffer |-> None]
NoRequest == [kind |-> None, lba |-> 0, count |-> 0, data |-> <<>>, moved |-> <<>>]

\* What a read of the sector finds.
Held(s) == IF cache[s] # None THEN cache[s] ELSE medium[s]

Init ==
  /\ present \in Present
  /\ medium \in [Sectors -> Values]
  /\ cache = [s \in Sectors |-> None]
  /\ drive = Idle
  /\ registers = [head |-> 0, low |-> 0, count |-> 0]
  /\ request = NoRequest
  /\ phase = "idle" /\ polls = 0 /\ result = None
  /\ possible = [s \in Sectors |-> {medium[s]}]
  /\ abandoned = FALSE

(* -------------------------------- the drive ----------------------------- *)

Start(command) ==
  [status |-> "busy", err |-> FALSE, command |-> command,
   at |-> registers'.head * LOW + registers'.low, left |-> registers'.count, buffer |-> None]

\* A write to the command register.
Accept(command) ==
  \/ drive' = Start(command)
  \/ drive.status = "drq" /\ UNCHANGED drive

\* It makes a sector ready, stores one it was given, or has emptied its cache.
DriveWorks ==
  /\ drive.status = "busy"
  /\ CASE drive.command = "read" ->
            /\ drive' = [drive EXCEPT !.status = "drq", !.buffer = Held(drive.at)]
            /\ UNCHANGED <<medium, cache>>
       [] drive.command = "write" /\ drive.buffer = None ->
            /\ drive' = [drive EXCEPT !.status = "drq"]
            /\ UNCHANGED <<medium, cache>>
       [] drive.command = "write" /\ drive.buffer # None ->
            /\ cache' = [cache EXCEPT ![drive.at] = drive.buffer]
            /\ drive' = IF drive.left = 1 THEN Idle
                        ELSE [drive EXCEPT !.status = "drq", !.buffer = None,
                                           !.at = @ + 1, !.left = @ - 1]
            /\ UNCHANGED medium
       [] drive.command = "flush" ->
            /\ medium' = [s \in Sectors |-> Held(s)]
            /\ cache' = [s \in Sectors |-> None]
            /\ drive' = Idle
  /\ UNCHANGED <<present, registers, request, phase, polls, result, possible, abandoned>>

\* The command ends with ERR or a device fault.
DriveFails ==
  /\ drive.status = "busy"
  /\ drive' = [Idle EXCEPT !.err = TRUE]
  /\ UNCHANGED <<present, medium, cache, registers, request, phase, polls, result,
                 possible, abandoned>>

\* It may store what it caches whenever it likes.
WriteBack(s) ==
  /\ cache[s] # None
  /\ medium' = [medium EXCEPT ![s] = cache[s]]
  /\ cache' = [cache EXCEPT ![s] = None]
  /\ UNCHANGED <<present, drive, registers, request, phase, polls, result, possible, abandoned>>

\* The machine starts again with what the medium has.
PowerLoss ==
  /\ cache' = [s \in Sectors |-> None]
  /\ drive' = Idle
  /\ request' = NoRequest /\ phase' = "idle" /\ polls' = 0 /\ result' = None
  /\ abandoned' = FALSE
  /\ possible' = IF abandoned THEN [s \in Sectors |-> {medium[s]}] ELSE possible
  /\ UNCHANGED <<present, medium, registers>>

(* -------------------------------- the driver ---------------------------- *)

Asked(r) == r.lba..(r.lba + r.count - 1)

\* validate_request
Valid(lba, count, length) ==
  count # 0 /\ length = count /\ lba <= MAX_LBA /\ lba + count - 1 <= MAX_LBA

\* read_sectors and write_sectors, up to the first wait.
Request(kind, lba, count, data) ==
  /\ phase = "idle"
  /\ IF ~Valid(lba, count, Len(data))
     THEN /\ result' = "InvalidRequest"
          /\ UNCHANGED <<registers, request, phase, possible>>
     ELSE /\ request' = [kind |-> kind, lba |-> lba, count |-> count, data |-> data,
                         moved |-> <<>>]
          /\ registers' = [registers EXCEPT !.head = lba \div LOW]
          /\ phase' = "select" /\ result' = None
          /\ possible' = [s \in Sectors |->
               IF kind = "write" /\ s \in Asked(request')
               THEN possible[s] \cup {data[s - lba + 1]} ELSE possible[s]]
  /\ polls' = 0
  /\ UNCHANGED <<present, medium, cache, drive, abandoned>>

Return(outcome) ==
  /\ result' = outcome /\ phase' = "idle" /\ polls' = 0 /\ request' = NoRequest
  /\ UNCHANGED <<present, medium, cache, drive, registers>>

\* Only a write that is not in doubt settles what its sectors hold.
Done ==
  /\ Return("Ok")
  /\ possible' = [s \in Sectors |->
       IF request.kind = "write" /\ s \in Asked(request)
       THEN {request.data[s - request.lba + 1]} ELSE possible[s]]
  /\ UNCHANGED abandoned

\* Error register, count, address, command.
Command ==
  /\ phase = "select"
  /\ registers' = [registers EXCEPT !.low = request.lba % LOW, !.count = request.count]
  /\ Accept(request.kind)
  /\ phase' = "transfer" /\ polls' = 0
  /\ UNCHANGED <<present, medium, cache, request, result, possible, abandoned>>

\* One sector through the data register, 256 words.  The drive takes part in
\* it only if it has a command in this direction.
Move ==
  /\ phase = "transfer" /\ drive.status = "drq"
  /\ phase' = IF Len(request.moved) + 1 = request.count THEN "finish" ELSE "transfer"
  /\ polls' = 0
  /\ IF request.kind = "read"
     THEN /\ \E v \in (IF drive.command = "read" THEN {drive.buffer} ELSE Values) :
               request' = [request EXCEPT !.moved = Append(@, v)]
          /\ drive' = IF drive.command # "read" THEN drive
                      ELSE IF drive.left = 1 THEN Idle
                      ELSE [drive EXCEPT !.status = "busy", !.at = @ + 1, !.left = @ - 1]
     ELSE LET v == request.data[Len(request.moved) + 1]
          IN  /\ request' = [request EXCEPT !.moved = Append(@, v)]
              /\ drive' = IF drive.command # "write" THEN drive
                          ELSE [drive EXCEPT !.status = "busy", !.buffer = v]
  /\ UNCHANGED <<present, medium, cache, registers, result, possible, abandoned>>

NoData ==
  /\ phase = "transfer" /\ drive.status # "drq"
  /\ Return("Device")
  /\ UNCHANGED <<possible, abandoned>>

\* Mutant: a write returns when the drive has taken the last sector.
FinishUnflushed == phase = "finish" /\ Done

Finish ==
  /\ phase = "finish"
  /\ IF request.kind = "read" THEN Done
     ELSE /\ UNCHANGED registers
          /\ Accept("flush")
          /\ phase' = "flush" /\ polls' = 0
          /\ UNCHANGED <<present, medium, cache, request, result, possible, abandoned>>

Flushed == phase = "flush" /\ Done

Proceed == Command \/ Move \/ NoData \/ Finish \/ Flushed

\* Mutant: polls are not counted.
BusyForever ==
  /\ polls' = polls
  /\ UNCHANGED <<present, medium, cache, drive, registers, request, phase, result,
                 possible, abandoned>>

\* A poll of a busy drive.
Busy ==
  \/ /\ polls + 1 < WAIT_LIMIT
     /\ polls' = polls + 1
     /\ UNCHANGED <<present, medium, cache, drive, registers, request, phase, result,
                    possible, abandoned>>
  \/ /\ polls + 1 >= WAIT_LIMIT
     /\ Return("Timeout")
     /\ abandoned' = (abandoned \/ phase = "transfer")
     /\ UNCHANGED possible

Fail(outcome) == Return(outcome) /\ UNCHANGED <<possible, abandoned>>

\* wait_not_busy, and what the request does when it returns.
Poll ==
  /\ phase # "idle"
  /\ \/ ~present /\ Fail("NoDevice")
     \/ present /\ drive.status = "busy" /\ Busy
     \/ present /\ drive.status # "busy" /\ drive.err /\ Fail("Device")
     \/ present /\ drive.status # "busy" /\ ~drive.err /\ Proceed

\* Buffers to write, and to read into.
Input  == UNION {[1..n -> Values] : n \in 0..MAX_COUNT}
Output == UNION {[1..n -> {None}] : n \in 0..MAX_COUNT}

Next ==
  \/ \E lba \in 0..(MAX_LBA + 1), count \in 0..MAX_COUNT :
       \/ \E data \in Input : Request("write", lba, count, data)
       \/ \E data \in Output : Request("read", lba, count, data)
  \/ Poll
  \/ DriveWorks \/ DriveFails \/ PowerLoss
  \/ \E s \in Sectors : WriteBack(s)

Spec == Init /\ [][Next]_vars /\ WF_vars(Poll)

(* ------------------------------- properties ----------------------------- *)

\* The drive and the driver stay within the request.
TypeOK ==
  /\ \A s \in Sectors : medium[s] \in Values /\ cache[s] \in Values \cup {None}
  /\ drive.status \in {"ready", "busy", "drq"} /\ drive.at \in Sectors
  /\ phase \in {"idle", "select", "transfer", "finish", "flush"}
  /\ polls \in 0..WAIT_LIMIT
  /\ Len(request.moved) <= request.count

\* As long as no transfer was abandoned: a sector holds, with the power or
\* without, what the last successful write put there, or the contents of a
\* later write that failed or is under way, and other sectors never change.
SectorsAsWritten ==
  ~abandoned => \A s \in Sectors : {medium[s], Held(s)} \subseteq possible[s]

\* As long as no transfer was abandoned, a read that is about to return Ok has
\* the sectors it was asked for, in order.
ReadsWhatIsHeld ==
  (phase = "finish" /\ request.kind = "read" /\ ~abandoned) =>
     request.moved = [k \in 1..request.count |-> Held(request.lba + k - 1)]

\* Once the drive has reported an error, wait_not_busy lets no command through
\* that would clear it: the drive stays out of use until the machine restarts.
ErrorIsFinal == [][(drive.err /\ ~drive'.err) => PowerLoss]_vars

\* Every request returns: no wait outlasts WAIT_LIMIT polls.
RequestsReturn == (phase # "idle") ~> (phase = "idle")
=============================================================================
