--------------------------- MODULE AtaDisk_proofs ---------------------------
(***************************************************************************)
(* Proofs about AtaDisk, for disks of any size, requests of any length,    *)
(* any limit on the polls, and a drive that is slow, fails or loses its    *)
(* power at any point.                                                     *)
(*                                                                         *)
(* SectorsAsWritten and ReadsWhatIsHeld are not inductive: they need where *)
(* the drive is in the command it was given, relative to where the driver  *)
(* is in the request, and that a drive which is still busy when a request  *)
(* gives up outside of a transfer only has its last sector or its cache to *)
(* store.  That relation is Together.                                      *)
(***************************************************************************)
EXTENDS AtaDisk, TLAPS

Drives ==
  [status : {"ready", "busy", "drq"}, err : BOOLEAN, command : {None, "read", "write", "flush"},
   at : Sectors, left : Nat, buffer : Values \cup {None}]

Requests ==
  [kind : {None, "read", "write"}, lba : Nat, count : Nat,
   data : Seq(Values \cup {None}), moved : Seq(Values \cup {None})]

Typed ==
  /\ medium \in [Sectors -> Values]
  /\ cache \in [Sectors -> Values \cup {None}]
  /\ drive \in Drives
  /\ registers \in [head : Int, low : Int, count : Nat]
  /\ request \in Requests
  /\ phase \in {"idle", "select", "transfer", "finish", "flush"}
  /\ polls \in 0..WAIT_LIMIT
  /\ possible \in [Sectors -> SUBSET Values]
  /\ abandoned \in BOOLEAN

\* The drive works on a command, or is idle; a command stays on the disk.
DriveOK ==
  /\ drive.err => drive.status = "ready"
  /\ drive.status # "ready" =>
       drive.command # None /\ drive.left >= 1 /\ drive.at + drive.left - 1 <= MAX_LBA
  /\ drive.status = "drq" =>
       \/ drive.command = "read" /\ drive.buffer \in Values
       \/ drive.command = "write" /\ drive.buffer = None

\* The driver works on a request that validate_request let through, with the
\* registers written for it, or has none.
RequestOK ==
  /\ phase = "idle" => request = NoRequest
  /\ phase # "idle" =>
       /\ request.kind \in {"read", "write"}
       /\ request.count >= 1 /\ request.lba + request.count - 1 <= MAX_LBA
       /\ Len(request.data) = request.count
       /\ request.kind = "write" => \A k \in 1..request.count : request.data[k] \in Values
       /\ registers.head = request.lba \div LOW
  /\ phase = "select" => request.moved = <<>>
  /\ phase \in {"transfer", "finish", "flush"} =>
       registers.low = request.lba % LOW /\ registers.count = request.count
  /\ phase = "transfer" => Len(request.moved) < request.count
  /\ phase \in {"finish", "flush"} => Len(request.moved) = request.count
  /\ phase = "flush" => request.kind = "write"
  /\ ~present => phase \in {"idle", "select"} /\ drive.status = "ready"

\* The drive has a sector it was given and has not stored yet.
Storing == drive.status = "busy" /\ drive.command = "write" /\ drive.buffer # None

\* Sectors the drive has finished.
Behind == IF Storing THEN Len(request.moved) - 1 ELSE Len(request.moved)

\* In a transfer the drive is at the driver's sector; out of one it has at most
\* the last sector or its cache to store.
InStep ==
  /\ drive.status = "drq" => phase = "transfer"
  /\ drive.status = "busy" /\ phase # "transfer" =>
       drive.command = "flush" \/ (Storing /\ drive.left = 1)
  /\ phase = "transfer" /\ ~drive.err =>
       /\ drive.status # "ready" /\ drive.command = request.kind
       /\ drive.at = request.lba + Behind /\ drive.left = request.count - Behind
  /\ phase = "finish" /\ drive.status = "busy" =>
       Storing /\ request.kind = "write" /\ drive.at = request.lba + Behind
  /\ phase = "flush" => drive.status = "ready" \/ drive.command = "flush"

\* What the drive has of a write, and the driver of a read.
InHand ==
  /\ Storing => drive.buffer \in possible[drive.at]
  /\ Storing /\ phase \in {"transfer", "finish"} =>
       Len(request.moved) >= 1 /\ drive.buffer = request.data[Len(request.moved)]
  /\ phase # "idle" /\ request.kind = "write" =>
       \A k \in 1..request.count : request.data[k] \in possible[request.lba + k - 1]
  /\ phase \in {"transfer", "finish", "flush"} /\ request.kind = "write" /\ ~drive.err =>
       \A k \in 1..Behind : Held(request.lba + k - 1) = request.data[k]
  /\ phase = "flush" /\ drive.status = "ready" /\ ~drive.err =>
       \A s \in Sectors : cache[s] = None
  /\ drive.status = "drq" /\ drive.command = "read" => drive.buffer = Held(drive.at)
  /\ phase \in {"transfer", "finish"} /\ request.kind = "read" =>
       \A k \in 1..Len(request.moved) : request.moved[k] = Held(request.lba + k - 1)

Together == ~abandoned => SectorsAsWritten /\ InStep /\ InHand

IInv == Typed /\ DriveOK /\ RequestOK /\ Together

-----------------------------------------------------------------------------

USE DEF None, Drives, Requests

\* The drive computes from the registers the address they were written from.
LEMMA Address == \A lba \in Nat : (lba \div LOW) * LOW + (lba % LOW) = lba
  BY AtaDiskAssumption

\* A drive without a command.
LEMMA IdleFields ==
  /\ Idle.status = "ready" /\ ~Idle.err /\ Idle.command = None
  /\ Idle \in Drives
  BY AtaDiskAssumption DEF Idle, Sectors

\* What a sector holds is a value.
LEMMA HeldIsValue == Typed => \A s \in Sectors : Held(s) \in Values
  BY DEF Typed, Held

\* The sectors of a request are on the disk.
LEMMA AskedOnDisk ==
  Typed /\ RequestOK /\ phase # "idle" => \A k \in 1..request.count : request.lba + k - 1 \in Sectors
<1> SUFFICES ASSUME Typed, RequestOK, phase # "idle", NEW k \in 1..request.count
             PROVE  request.lba + k - 1 \in Sectors
  OBVIOUS
<1>1. request.lba \in Nat /\ request.count \in Nat /\ MAX_LBA \in Nat
  BY AtaDiskAssumption DEF Typed
<1>2. request.lba + request.count - 1 <= MAX_LBA
  BY DEF RequestOK
<1> QED BY <1>1, <1>2 DEF Sectors

\* The drive and the driver begin idle.
LEMMA InitIInv == Init => IInv
<1> SUFFICES ASSUME Init PROVE IInv
  OBVIOUS
<1>0. 0 \in Sectors
  BY AtaDiskAssumption DEF Sectors
<1>1. Typed
  <2>1. request \in Requests
    BY DEF Init, NoRequest
  <2>2. possible \in [Sectors -> SUBSET Values] /\ medium \in [Sectors -> Values]
    BY DEF Init
  <2>3. drive \in Drives
    BY <1>0 DEF Init, Idle
  <2>4. registers \in [head : Int, low : Int, count : Nat] /\ cache \in [Sectors -> Values \cup {None}]
    BY DEF Init
  <2>5. 0 \in 0..WAIT_LIMIT
    BY AtaDiskAssumption
  <2>6. polls = 0 /\ abandoned = FALSE /\ phase = "idle"
    BY DEF Init
  <2> QED BY <2>1, <2>2, <2>3, <2>4, <2>5, <2>6 DEF Typed
<1>2. DriveOK
  BY DEF Init, DriveOK, Idle
<1>3. RequestOK
  BY DEF Init, RequestOK, Idle
<1>4. Together
  BY DEF Init, Together, SectorsAsWritten, InStep, InHand, Storing, Idle, Held
<1> QED BY <1>1, <1>2, <1>3, <1>4 DEF IInv

\* A call of read_sectors or write_sectors.
LEMMA RequestKeeps ==
  ASSUME IInv, NEW kind \in {"read", "write"}, NEW lba \in Nat, NEW count \in Nat,
         NEW data \in Seq(Values \cup {None}),
         kind = "write" => \A k \in 1..Len(data) : data[k] \in Values,
         Request(kind, lba, count, data)
  PROVE  IInv'
<1>0. Typed /\ DriveOK /\ RequestOK /\ Together
  BY DEF IInv
<1>1. CASE ~Valid(lba, count, Len(data))
  <2>0. UNCHANGED <<present, medium, cache, drive, registers, request, phase, possible, abandoned>> /\ polls' = 0
    BY <1>1 DEF Request
  <2>1. Typed'
    BY <1>0, <2>0, AtaDiskAssumption DEF Typed
  <2>2. DriveOK' /\ RequestOK'
    BY <1>0, <2>0 DEF DriveOK, RequestOK
  <2>3. Together'
    BY <1>0, <2>0 DEF Together, SectorsAsWritten, InStep, InHand, Storing, Behind, Held
  <2> QED BY <2>1, <2>2, <2>3 DEF IInv
<1>2. CASE Valid(lba, count, Len(data))
  <2>0. /\ phase = "idle" /\ phase' = "select" /\ polls' = 0
        /\ request' = [kind |-> kind, lba |-> lba, count |-> count, data |-> data, moved |-> <<>>]
        /\ registers' = [registers EXCEPT !.head = lba \div LOW]
        /\ possible' = [s \in Sectors |->
              IF kind = "write" /\ s \in Asked(request')
              THEN possible[s] \cup {data[s - lba + 1]} ELSE possible[s]]
        /\ UNCHANGED <<present, medium, cache, drive, abandoned>>
    BY <1>2 DEF Request
  <2>1. count >= 1 /\ Len(data) = count /\ lba + count - 1 <= MAX_LBA
    BY <1>2 DEF Valid
  <2>2. /\ request'.kind = kind /\ request'.lba = lba /\ request'.count = count
        /\ request'.data = data /\ request'.moved = <<>>
    BY <2>0
  <2>3. lba \div LOW \in Int /\ registers'.head = lba \div LOW
    <3>1. lba \div LOW \in Int
      BY AtaDiskAssumption
    <3>2. registers \in [head : Int, low : Int, count : Nat]
      BY <1>0 DEF Typed
    <3>3. registers'.head = lba \div LOW
      BY <2>0, <3>2
    <3> QED BY <3>1, <3>3
  <2>4. Asked(request') = lba .. (lba + count - 1)
    BY <2>2 DEF Asked
  <2>5. possible' \in [Sectors -> SUBSET Values]
    <3>1. ASSUME NEW s \in Asked(request'), kind = "write" PROVE data[s - lba + 1] \in Values
      <4>1. s - lba + 1 \in 1..Len(data)
        BY <2>1, <2>4, <3>1
      <4> QED BY <3>1, <4>1
    <3> QED BY <1>0, <2>0, <3>1 DEF Typed
  <2>6. \A s \in Sectors : possible[s] \subseteq possible'[s]
    BY <1>0, <2>0 DEF Typed
  <2>7. Typed'
    <3>1. request' \in Requests
      BY <2>0
    <3>2. registers' \in [head : Int, low : Int, count : Nat]
      BY <1>0, <2>0, <2>3 DEF Typed
    <3>3. polls' \in 0..WAIT_LIMIT
      BY <2>0, AtaDiskAssumption
    <3> QED BY <1>0, <2>0, <2>5, <3>1, <3>2, <3>3, Zenon DEF Typed
  <2>8. DriveOK'
    BY <1>0, <2>0 DEF DriveOK
  <2>9. RequestOK'
    BY <1>0, <2>0, <2>1, <2>2, <2>3 DEF RequestOK
  <2>10. Together'
    <3> SUFFICES ASSUME ~abandoned PROVE SectorsAsWritten' /\ InStep' /\ InHand'
      BY <2>0 DEF Together
    <3>1. SectorsAsWritten /\ InStep /\ InHand
      BY <1>0 DEF Together
    <3>2. SectorsAsWritten'
      BY <2>0, <2>6, <3>1 DEF SectorsAsWritten, Held
    <3>3. InStep'
      BY <2>0, <3>1 DEF InStep, Storing
    <3>4. drive.at \in Sectors
      BY <1>0 DEF Typed
    <3>5. ASSUME NEW k \in 1..count, kind = "write" PROVE data[k] \in possible'[lba + k - 1]
      <4>1. lba + k - 1 \in Sectors /\ lba + k - 1 \in Asked(request') /\ (lba + k - 1) - lba + 1 = k
        BY <2>1, <2>4, AtaDiskAssumption DEF Sectors
      <4> QED BY <2>0, <3>5, <4>1
    <3>6. drive.status # "drq"
      BY <2>0, <3>1 DEF InStep
    <3>7. InHand'
      BY <2>0, <2>2, <2>6, <3>1, <3>4, <3>5, <3>6 DEF InHand, Storing
    <3> QED BY <3>2, <3>3, <3>7
  <2> QED BY <2>7, <2>8, <2>9, <2>10 DEF IInv
<1> QED BY <1>1, <1>2

\* A request returns: outside of a transfer that is under way the drive is left
\* with nothing that what the sectors may hold does not allow.
LEMMA ReturnKeeps ==
  ASSUME IInv, NEW outcome, Return(outcome),
         possible' \in [Sectors -> SUBSET Values], abandoned' \in BOOLEAN,
         ~abandoned' => /\ ~abandoned
                        /\ phase = "transfer" => drive.status = "ready"
                        /\ \A s \in Sectors : {medium[s], Held(s)} \subseteq possible'[s]
                        /\ Storing => drive.buffer \in possible'[drive.at]
  PROVE  IInv'
<1>0. Typed /\ DriveOK /\ RequestOK /\ Together
  BY DEF IInv
<1>1. /\ phase' = "idle" /\ polls' = 0 /\ request' = NoRequest
      /\ UNCHANGED <<present, medium, cache, drive, registers>>
  BY DEF Return
<1>2. Typed'
  <2>1. NoRequest \in Requests
    BY DEF NoRequest
  <2>2. polls' \in 0..WAIT_LIMIT
    BY <1>1, AtaDiskAssumption
  <2> QED BY <1>0, <1>1, <2>1, <2>2, Zenon DEF Typed
<1>3. DriveOK'
  BY <1>0, <1>1 DEF DriveOK
<1>4. RequestOK'
  BY <1>0, <1>1 DEF RequestOK
<1>5. Together'
  <2> SUFFICES ASSUME ~abandoned' PROVE SectorsAsWritten' /\ InStep' /\ InHand'
    BY DEF Together
  <2>1. InStep /\ InHand
    BY <1>0 DEF Together
  <2>2. SectorsAsWritten'
    BY <1>1 DEF SectorsAsWritten, Held
  <2>3. drive.status # "drq"
    BY <2>1 DEF InStep
  <2>4. InStep'
    BY <1>1, <2>1, <2>3 DEF InStep, Storing
  <2>5. InHand'
    BY <1>1, <2>1, <2>3 DEF InHand, Storing
  <2> QED BY <2>2, <2>4, <2>5
<1> QED BY <1>2, <1>3, <1>4, <1>5 DEF IInv

\* A failure leaves what the sectors may hold alone.
LEMMA FailKeeps ==
  ASSUME IInv, NEW outcome, Return(outcome), UNCHANGED possible, abandoned' \in BOOLEAN,
         ~abandoned' => ~abandoned /\ (phase = "transfer" => drive.status = "ready")
  PROVE  IInv'
<1>1. possible' \in [Sectors -> SUBSET Values]
  BY DEF IInv, Typed
<1>2. ~abandoned' => /\ \A s \in Sectors : {medium[s], Held(s)} \subseteq possible'[s]
                     /\ Storing => drive.buffer \in possible'[drive.at]
  BY DEF IInv, Together, SectorsAsWritten, InHand
<1> QED BY <1>1, <1>2, ReturnKeeps

\* The registers and the command are written to a drive that is not busy.
LEMMA CommandKeeps ==
  ASSUME IInv, present, drive.status # "busy", ~drive.err, Command
  PROVE  IInv'
<1>0. Typed /\ DriveOK /\ RequestOK /\ Together
  BY DEF IInv
<1>1. /\ phase = "select" /\ phase' = "transfer" /\ polls' = 0
      /\ registers' = [registers EXCEPT !.low = request.lba % LOW, !.count = request.count]
      /\ UNCHANGED <<present, medium, cache, request, possible, abandoned>>
      /\ drive' = Start(request.kind) \/ (drive.status = "drq" /\ drive' = drive)
  BY DEF Command, Accept
<1>2. /\ request.kind \in {"read", "write"} /\ request.count >= 1
      /\ request.lba + request.count - 1 <= MAX_LBA
      /\ request.lba \in Nat /\ request.count \in Nat /\ request.moved = <<>>
      /\ registers.head = request.lba \div LOW
  BY <1>0, <1>1 DEF RequestOK, Typed
<1>3. request.lba % LOW \in Int /\ request.lba \div LOW \in Int
  BY <1>2, AtaDiskAssumption
<1>4. /\ registers' \in [head : Int, low : Int, count : Nat]
      /\ registers'.head = request.lba \div LOW
      /\ registers'.low = request.lba % LOW /\ registers'.count = request.count
  BY <1>0, <1>1, <1>2, <1>3 DEF Typed
<1>5. registers'.head * LOW + registers'.low = request.lba
  BY <1>2, <1>4, Address
<1>6. Start(request.kind) = [status |-> "busy", err |-> FALSE, command |-> request.kind,
                             at |-> request.lba, left |-> request.count, buffer |-> None]
  BY <1>4, <1>5 DEF Start
<1>7. request.lba \in Sectors
  BY <1>2, AtaDiskAssumption DEF Sectors
<1>8. Typed'
  <2>1. drive' \in Drives
    <3>1. Start(request.kind) \in Drives
      BY <1>2, <1>6, <1>7
    <3> QED BY <1>0, <1>1, <3>1 DEF Typed
  <2>2. polls' \in 0..WAIT_LIMIT
    BY <1>1, AtaDiskAssumption
  <2> QED BY <1>0, <1>1, <1>4, <2>1, <2>2, Zenon DEF Typed
<1>9. DriveOK'
  BY <1>0, <1>1, <1>2, <1>6 DEF DriveOK
<1>10. RequestOK'
  <2>1. Len(request.moved) = 0
    BY <1>2
  <2> QED BY <1>0, <1>1, <1>2, <1>4, <2>1 DEF RequestOK
<1>11. Together'
  <2> SUFFICES ASSUME ~abandoned PROVE SectorsAsWritten' /\ InStep' /\ InHand'
    BY <1>1 DEF Together
  <2>1. SectorsAsWritten /\ InStep /\ InHand
    BY <1>0 DEF Together
  <2>2. drive' = [status |-> "busy", err |-> FALSE, command |-> request.kind,
                  at |-> request.lba, left |-> request.count, buffer |-> None]
    BY <1>1, <1>6, <2>1 DEF InStep
  <2>3. SectorsAsWritten'
    BY <1>1, <2>1 DEF SectorsAsWritten, Held
  <2>4. ~Storing' /\ Behind' = 0
    BY <1>1, <1>2, <2>2 DEF Storing, Behind
  <2>5. InStep'
    BY <1>1, <1>2, <2>2, <2>4 DEF InStep
  <2>6. InHand'
    BY <1>1, <1>2, <2>1, <2>2, <2>4 DEF InHand
  <2> QED BY <2>3, <2>5, <2>6
<1> QED BY <1>8, <1>9, <1>10, <1>11 DEF IInv

\* One sector through the data register.
LEMMA MoveKeeps ==
  ASSUME IInv, present, drive.status = "drq", ~drive.err, Move
  PROVE  IInv'
<1>0. Typed /\ DriveOK /\ RequestOK /\ Together
  BY DEF IInv
<1> DEFINE n == Len(request.moved)
<1>1. /\ phase = "transfer" /\ polls' = 0
      /\ phase' = IF n + 1 = request.count THEN "finish" ELSE "transfer"
      /\ UNCHANGED <<present, medium, cache, registers, possible, abandoned>>
  BY DEF Move
<1>2. /\ request.kind \in {"read", "write"} /\ n \in Nat /\ n < request.count
      /\ request.count \in Nat /\ request.lba \in Nat /\ request.count >= 1
      /\ request.lba + request.count - 1 <= MAX_LBA /\ Len(request.data) = request.count
      /\ request.moved \in Seq(Values \cup {None}) /\ request.data \in Seq(Values \cup {None})
      /\ request.kind = "write" => request.data[n + 1] \in Values
  BY <1>0, <1>1 DEF RequestOK, Typed
<1>3. /\ drive.at \in Sectors /\ drive.left \in Nat /\ drive.left >= 1
      /\ drive.at + drive.left - 1 <= MAX_LBA
      /\ \/ drive.command = "read" /\ drive.buffer \in Values
         \/ drive.command = "write" /\ drive.buffer = None
  BY <1>0 DEF Typed, DriveOK
<1>4. PICK v \in Values :
        /\ request' = [request EXCEPT !.moved = Append(@, v)]
        /\ request.kind = "read" /\ drive.command = "read" => v = drive.buffer
        /\ request.kind = "write" => v = request.data[n + 1]
        /\ drive' = IF drive.command # request.kind THEN drive
                    ELSE IF request.kind = "write" THEN [drive EXCEPT !.status = "busy", !.buffer = v]
                    ELSE IF drive.left = 1 THEN Idle
                    ELSE [drive EXCEPT !.status = "busy", !.at = @ + 1, !.left = @ - 1]
  <2>1. CASE request.kind = "read"
    BY <1>3, <2>1 DEF Move
  <2>2. CASE request.kind = "write"
    BY <1>2, <2>2 DEF Move
  <2> QED BY <1>2, <2>1, <2>2
<1>5. /\ request'.kind = request.kind /\ request'.lba = request.lba
      /\ request'.count = request.count /\ request'.data = request.data
      /\ request'.moved = Append(request.moved, v)
  BY <1>0, <1>4 DEF Typed
<1>6. /\ request'.moved \in Seq(Values \cup {None}) /\ Len(request'.moved) = n + 1
      /\ request'.moved[n + 1] = v
      /\ \A k \in 1..n : request'.moved[k] = request.moved[k]
  BY <1>2, <1>5
<1> HIDE DEF n
<1>7. Typed'
  <2>1. request' \in Requests
    BY <1>0, <1>4, <1>5, <1>6 DEF Typed
  <2>2. drive' \in Drives
    <3>1. drive.left # 1 => drive.at + 1 \in Sectors /\ drive.left - 1 \in Nat
      BY <1>3, AtaDiskAssumption DEF Sectors
    <3>2. Idle \in Drives
      BY AtaDiskAssumption DEF Idle, Sectors
    <3>3. CASE drive.command # request.kind
      BY <1>0, <1>4, <3>3 DEF Typed
    <3>4. CASE drive.command = request.kind /\ request.kind = "write"
      <4>1. drive' = [drive EXCEPT !.status = "busy", !.buffer = v]
        BY <1>4, <3>4
      <4> QED BY <1>0, <4>1 DEF Typed
    <3>5. CASE drive.command = request.kind /\ request.kind = "read" /\ drive.left = 1
      BY <1>4, <3>2, <3>5
    <3>6. CASE drive.command = request.kind /\ request.kind = "read" /\ drive.left # 1
      <4>1. drive' = [drive EXCEPT !.status = "busy", !.at = @ + 1, !.left = @ - 1]
        BY <1>4, <3>6
      <4> QED BY <1>0, <3>1, <3>6, <4>1 DEF Typed
    <3> QED BY <1>2, <3>3, <3>4, <3>5, <3>6
  <2>3. polls' \in 0..WAIT_LIMIT
    BY <1>1, AtaDiskAssumption
  <2> QED BY <1>0, <1>1, <2>1, <2>2, <2>3, Zenon DEF Typed
<1>8. DriveOK'
  <2>1. CASE drive.command # request.kind
    BY <1>0, <1>4, <2>1 DEF DriveOK
  <2>2. CASE drive.command = request.kind /\ request.kind = "write"
    <3>1. /\ drive'.status = "busy" /\ drive'.err = drive.err /\ drive'.command = "write"
          /\ drive'.at = drive.at /\ drive'.left = drive.left
      BY <1>0, <1>4, <2>2 DEF Typed
    <3> QED BY <1>3, <3>1 DEF DriveOK
  <2>3. CASE drive.command = request.kind /\ request.kind = "read" /\ drive.left = 1
    BY <1>4, <2>3 DEF DriveOK, Idle
  <2>4. CASE drive.command = request.kind /\ request.kind = "read" /\ drive.left # 1
    <3>1. /\ drive'.status = "busy" /\ drive'.err = drive.err /\ drive'.command = "read"
          /\ drive'.at = drive.at + 1 /\ drive'.left = drive.left - 1
      BY <1>0, <1>4, <2>4 DEF Typed
    <3> QED BY <1>3, <2>4, <3>1, AtaDiskAssumption DEF DriveOK, Sectors
  <2> QED BY <1>2, <2>1, <2>2, <2>3, <2>4
<1>9. RequestOK'
  <2>1. phase' = "finish" => n + 1 = request.count
    BY <1>1
  <2>2. phase' = "transfer" => n + 1 < request.count
    BY <1>1, <1>2
  <2> QED BY <1>0, <1>1, <1>2, <1>5, <1>6, <2>1, <2>2 DEF RequestOK
<1>10. Together'
  <2> SUFFICES ASSUME ~abandoned PROVE SectorsAsWritten' /\ InStep' /\ InHand'
    BY <1>1 DEF Together
  <2>0. SectorsAsWritten /\ InStep /\ InHand
    BY <1>0 DEF Together
  <2>1. SectorsAsWritten'
    BY <1>1, <2>0 DEF SectorsAsWritten, Held
  <2>2. ~Storing /\ Behind = n
    BY DEF Storing, Behind, n
  <2>3. drive.command = request.kind /\ drive.at = request.lba + n /\ drive.left = request.count - n
    BY <1>1, <2>0, <2>2 DEF InStep
  <2>4. \A s : Held(s)' = Held(s)
    BY <1>1 DEF Held
  <2>5. CASE request.kind = "write"
    <3>1. /\ drive'.status = "busy" /\ drive'.err = drive.err /\ drive'.command = "write"
          /\ drive'.at = drive.at /\ drive'.left = drive.left /\ drive'.buffer = v
      BY <1>0, <1>4, <2>3, <2>5 DEF Typed
    <3>2. Storing' /\ Behind' = n
      BY <1>2, <1>6, <3>1, AtaDiskAssumption DEF Storing, Behind
    <3>3. InStep'
      <4>1. phase' = "finish" => drive'.left = 1
        BY <1>1, <1>2, <2>3, <3>1
      <4> QED BY <1>1, <1>2, <1>5, <2>3, <2>5, <3>1, <3>2, <4>1 DEF InStep
    <3>4. v = request.data[n + 1] /\ v \in possible[drive.at]
      <4>1. n + 1 \in 1..request.count /\ request.lba + (n + 1) - 1 = drive.at
        BY <1>2, <2>3
      <4> QED BY <1>1, <1>4, <2>0, <2>5, <4>1 DEF InHand
    <3>5. \A k \in 1..n : Held(request.lba + k - 1) = request.data[k]
      BY <1>1, <2>0, <2>2, <2>5 DEF InHand
    <3>6. InHand'
      BY <1>1, <1>2, <1>5, <1>6, <2>0, <2>4, <2>5, <3>1, <3>2, <3>4, <3>5 DEF InHand
    <3> QED BY <2>1, <3>3, <3>6
  <2>6. CASE request.kind = "read"
    <3>1. \/ drive' = Idle /\ drive.left = 1
          \/ /\ drive'.status = "busy" /\ drive'.err = drive.err /\ drive'.command = "read"
             /\ drive'.at = drive.at + 1 /\ drive'.left = drive.left - 1 /\ drive.left # 1
      BY <1>0, <1>4, <2>3, <2>6 DEF Typed
    <3>2. ~Storing' /\ Behind' = n + 1
      BY <1>6, <3>1 DEF Storing, Behind, Idle
    <3>3. InStep'
      <4>1. CASE drive.left = 1
        <5>1. drive' = Idle
          BY <3>1, <4>1
        <5>a. n + 1 = request.count
          <6>1. n \in Nat /\ request.count \in Nat
            BY <1>2
          <6>2. 1 = request.count - n
            BY <2>3, <4>1
          <6> QED BY <6>1, <6>2
        <5>2. phase' = "finish"
          BY <1>1, <5>a
        <5> QED BY <5>1, <5>2 DEF InStep, Idle
      <4>2. CASE drive.left # 1
        <5>1. phase' = "transfer"
          BY <1>1, <1>2, <2>3, <4>2
        <5>2. /\ drive'.status = "busy" /\ drive'.command = "read"
              /\ drive'.at = drive.at + 1 /\ drive'.left = drive.left - 1
          BY <3>1, <4>2
        <5>3. drive'.at = request.lba + (n + 1) /\ drive'.left = request.count - (n + 1)
          BY <1>2, <2>3, <5>2
        <5> QED BY <1>5, <2>6, <3>2, <5>1, <5>2, <5>3 DEF InStep
      <4> QED BY <4>1, <4>2
    <3>4. v = Held(request.lba + (n + 1) - 1)
      <4>1. drive.at = request.lba + (n + 1) - 1
        BY <1>2, <2>3
      <4> QED BY <1>4, <2>0, <2>3, <2>6, <4>1 DEF InHand
    <3>5. \A k \in 1..(n + 1) : request'.moved[k] = Held(request.lba + k - 1)
      <4>1. \A k \in 1..n : request.moved[k] = Held(request.lba + k - 1)
        BY <1>1, <2>0, <2>6 DEF InHand, n
      <4> QED BY <1>2, <1>6, <3>4, <4>1
    <3>6. drive'.status # "drq"
      BY <3>1 DEF Idle
    <3>7. InHand'
      BY <1>1, <1>5, <1>6, <2>4, <2>6, <3>2, <3>5, <3>6 DEF InHand
    <3> QED BY <2>1, <3>3, <3>7
  <2> QED BY <1>2, <2>5, <2>6
<1> QED BY <1>7, <1>8, <1>9, <1>10 DEF IInv

\* After the last sector of a write the drive is told to flush its cache.
LEMMA FlushKeeps ==
  ASSUME IInv, present, drive.status # "busy", ~drive.err, phase = "finish",
         request.kind = "write", Finish
  PROVE  IInv'
<1>0. Typed /\ DriveOK /\ RequestOK /\ Together
  BY DEF IInv
<1>1. /\ phase' = "flush" /\ polls' = 0
      /\ UNCHANGED <<registers, present, medium, cache, request, possible, abandoned>>
      /\ drive' = Start("flush") \/ (drive.status = "drq" /\ drive' = drive)
  BY DEF Finish, Accept
<1>2. /\ request.count >= 1 /\ request.lba + request.count - 1 <= MAX_LBA
      /\ request.lba \in Nat /\ request.count \in Nat
      /\ registers.head = request.lba \div LOW /\ registers.low = request.lba % LOW
      /\ registers.count = request.count
  BY <1>0 DEF RequestOK, Typed
<1>3. registers'.head * LOW + registers'.low = request.lba
  BY <1>1, <1>2, Address
<1>4. Start("flush") = [status |-> "busy", err |-> FALSE, command |-> "flush",
                        at |-> request.lba, left |-> request.count, buffer |-> None]
  BY <1>1, <1>2, <1>3 DEF Start
<1>5. request.lba \in Sectors
  BY <1>2, AtaDiskAssumption DEF Sectors
<1>6. Typed'
  <2>1. Start("flush") \in Drives
    <3>1. [status |-> "busy", err |-> FALSE, command |-> "flush",
           at |-> request.lba, left |-> request.count, buffer |-> None]
            \in Drives
      BY <1>2, <1>5
    <3> QED BY <1>4, <3>1, Zenon
  <2>2. polls' \in 0..WAIT_LIMIT
    BY <1>1, AtaDiskAssumption
  <2> QED BY <1>0, <1>1, <2>1, <2>2, Zenon DEF Typed
<1>7. DriveOK'
  BY <1>0, <1>1, <1>2, <1>4 DEF DriveOK
<1>8. RequestOK'
  BY <1>0, <1>1 DEF RequestOK
<1>9. Together'
  <2> SUFFICES ASSUME ~abandoned PROVE SectorsAsWritten' /\ InStep' /\ InHand'
    BY <1>1 DEF Together
  <2>1. SectorsAsWritten /\ InStep /\ InHand
    BY <1>0 DEF Together
  <2>2. /\ drive'.status = "busy" /\ drive'.command = "flush" /\ drive'.buffer = None
    BY <1>1, <1>4, <2>1 DEF InStep
  <2>3. SectorsAsWritten'
    BY <1>1, <2>1 DEF SectorsAsWritten, Held
  <2>4. ~Storing /\ ~Storing' /\ Behind' = Behind
    BY <1>1, <2>2 DEF Storing, Behind
  <2>5. InStep'
    BY <1>1, <2>2, <2>4 DEF InStep
  <2>6. \A s : Held(s)' = Held(s)
    BY <1>1 DEF Held
  <2>7. InHand'
    BY <1>1, <2>1, <2>2, <2>4, <2>6 DEF InHand
  <2> QED BY <2>3, <2>5, <2>7
<1> QED BY <1>6, <1>7, <1>8, <1>9 DEF IInv

\* A read returns with what it has; a write, when the drive has emptied its
\* cache, so that the medium has all of it.
LEMMA DoneKeeps ==
  ASSUME IInv, drive.status # "busy", ~drive.err, Done,
         phase = "flush" \/ (phase = "finish" /\ request.kind = "read")
  PROVE  IInv'
<1>0. Typed /\ DriveOK /\ RequestOK /\ Together
  BY DEF IInv
<1>1. /\ Return("Ok") /\ UNCHANGED abandoned
      /\ possible' = [s \in Sectors |->
           IF request.kind = "write" /\ s \in Asked(request)
           THEN {request.data[s - request.lba + 1]} ELSE possible[s]]
  BY DEF Done
<1>2. /\ request.lba \in Nat /\ request.count \in Nat
      /\ request.kind = "write" => \A k \in 1..request.count : request.data[k] \in Values
  BY <1>0 DEF RequestOK, Typed
<1>3. ASSUME NEW s \in Asked(request)
      PROVE  /\ s - request.lba + 1 \in 1..request.count
             /\ request.lba + (s - request.lba + 1) - 1 = s
  BY <1>2, <1>3 DEF Asked
<1>4. possible' \in [Sectors -> SUBSET Values]
  BY <1>0, <1>1, <1>2, <1>3 DEF Typed
<1>5. ~abandoned => \A s \in Sectors : {medium[s], Held(s)} \subseteq possible'[s]
  <2> SUFFICES ASSUME ~abandoned, NEW s \in Sectors PROVE {medium[s], Held(s)} \subseteq possible'[s]
    OBVIOUS
  <2>1. SectorsAsWritten /\ InStep /\ InHand
    BY <1>0 DEF Together
  <2>2. CASE request.kind = "write" /\ s \in Asked(request)
    <3>1. phase = "flush" /\ drive.status = "ready"
      BY <2>1, <2>2, <1>0 DEF InStep, Typed
    <3>2. ~Storing /\ Behind = request.count
      BY <1>0, <3>1 DEF Storing, Behind, RequestOK
    <3>3. Held(s) = request.data[s - request.lba + 1]
      BY <1>3, <2>1, <2>2, <3>1, <3>2 DEF InHand
    <3>4. medium[s] = Held(s)
      BY <2>1, <3>1 DEF InHand, Held
    <3> QED BY <1>1, <2>2, <3>3, <3>4
  <2>3. CASE ~(request.kind = "write" /\ s \in Asked(request))
    BY <1>1, <2>1, <2>3 DEF SectorsAsWritten
  <2> QED BY <2>2, <2>3
<1>6. ~Storing
  BY DEF Storing
<1>7. abandoned' \in BOOLEAN
  BY <1>0, <1>1 DEF Typed
<1>8. phase # "transfer"
  OBVIOUS
<1> QED BY <1>1, <1>4, <1>5, <1>6, <1>7, <1>8, ReturnKeeps

\* A poll, and what the driver does with what it finds.
LEMMA PollKeeps ==
  ASSUME IInv, Poll
  PROVE  IInv'
<1>0. Typed /\ DriveOK /\ RequestOK /\ Together
  BY DEF IInv
<1>a. abandoned \in BOOLEAN
  BY <1>0 DEF Typed
<1>1. CASE ~present /\ Fail("NoDevice")
  <2>1. drive.status = "ready"
    BY <1>0, <1>1 DEF RequestOK
  <2> QED BY <1>1, <1>a, <2>1, FailKeeps DEF Fail
<1>2. CASE present /\ drive.status = "busy" /\ Busy
  <2>1. CASE /\ polls + 1 < WAIT_LIMIT /\ polls' = polls + 1
             /\ UNCHANGED <<present, medium, cache, drive, registers, request, phase, result,
                            possible, abandoned>>
    <3>1. Typed'
      BY <1>0, <2>1, AtaDiskAssumption DEF Typed
    <3>2. DriveOK' /\ RequestOK'
      BY <1>0, <2>1 DEF DriveOK, RequestOK
    <3>3. Together'
      BY <1>0, <2>1 DEF Together, SectorsAsWritten, InStep, InHand, Storing, Behind, Held
    <3> QED BY <3>1, <3>2, <3>3 DEF IInv
  <2>2. CASE /\ Return("Timeout") /\ UNCHANGED possible
             /\ abandoned' = (abandoned \/ phase = "transfer")
    <3>1. abandoned' \in BOOLEAN /\ (~abandoned' => ~abandoned /\ phase # "transfer")
      BY <2>2
    <3> QED BY <2>2, <3>1, FailKeeps
  <2> QED BY <1>2, <2>1, <2>2 DEF Busy
<1>3. CASE present /\ drive.status # "busy" /\ drive.err /\ Fail("Device")
  <2>1. drive.status = "ready"
    BY <1>0, <1>3 DEF DriveOK
  <2> QED BY <1>3, <1>a, <2>1, FailKeeps DEF Fail
<1>4. CASE present /\ drive.status # "busy" /\ ~drive.err /\ Proceed
  <2>1. CASE Command
    BY <1>4, <2>1, CommandKeeps
  <2>2. CASE Move
    BY <1>4, <2>2, MoveKeeps DEF Move
  <2>3. CASE NoData
    <3>1. drive.status = "ready"
      BY <1>0, <1>4, <2>3 DEF NoData, Typed
    <3> QED BY <1>a, <2>3, <3>1, FailKeeps DEF NoData
  <2>4. CASE Finish
    <3>1. request.kind \in {"read", "write"}
      BY <1>0, <2>4 DEF Finish, RequestOK
    <3>2. CASE request.kind = "read"
      BY <1>4, <2>4, <3>2, DoneKeeps DEF Finish
    <3>3. CASE request.kind = "write"
      BY <1>4, <2>4, <3>3, FlushKeeps DEF Finish
    <3> QED BY <3>1, <3>2, <3>3
  <2>5. CASE Flushed
    BY <1>4, <2>5, DoneKeeps DEF Flushed
  <2> QED BY <1>4, <2>1, <2>2, <2>3, <2>4, <2>5 DEF Proceed
<1> QED BY <1>1, <1>2, <1>3, <1>4 DEF Poll

\* The drive stores what it caches when it likes: what a sector holds stays.
LEMMA WriteBackKeeps ==
  ASSUME IInv, NEW s \in Sectors, WriteBack(s)
  PROVE  IInv'
<1>0. Typed /\ DriveOK /\ RequestOK /\ Together
  BY DEF IInv
<1>1. /\ cache[s] # None
      /\ medium' = [medium EXCEPT ![s] = cache[s]] /\ cache' = [cache EXCEPT ![s] = None]
      /\ UNCHANGED <<present, drive, registers, request, phase, polls, possible, abandoned>>
  BY DEF WriteBack
<1>2. Typed'
  BY <1>0, <1>1 DEF Typed
<1>3. DriveOK' /\ RequestOK'
  BY <1>0, <1>1 DEF DriveOK, RequestOK
<1>4. \A t \in Sectors : Held(t)' = Held(t)
  BY <1>0, <1>1 DEF Typed, Held
<1>5. Together'
  <2> SUFFICES ASSUME ~abandoned PROVE SectorsAsWritten' /\ InStep' /\ InHand'
    BY <1>1 DEF Together
  <2>0. SectorsAsWritten /\ InStep /\ InHand
    BY <1>0 DEF Together
  <2>1. SectorsAsWritten'
    <3>1. ASSUME NEW t \in Sectors PROVE {medium'[t], Held(t)'} \subseteq possible[t]
      <4>1. medium'[t] = medium[t] \/ medium'[t] = Held(t)
        BY <1>0, <1>1 DEF Typed, Held
      <4> QED BY <1>4, <2>0, <4>1 DEF SectorsAsWritten
    <3> QED BY <1>1, <3>1 DEF SectorsAsWritten
  <2>2. InStep'
    BY <1>1, <2>0 DEF InStep, Storing, Behind
  <2>3. Storing' = Storing /\ Behind' = Behind
    BY <1>1 DEF Storing, Behind
  <2>4. phase # "idle" => \A k \in 1..request.count : request.lba + k - 1 \in Sectors
    BY <1>0, AskedOnDisk
  <2>5. phase \in {"transfer", "finish", "flush"} => Behind \in Int /\ Behind <= request.count
    BY <1>0 DEF Typed, RequestOK, Behind
  <2>6. phase \in {"transfer", "finish"} => Len(request.moved) \in Nat /\ Len(request.moved) <= request.count
    BY <1>0 DEF Typed, RequestOK
  <2>7. phase \in {"transfer", "finish", "flush"} /\ request.kind = "write" /\ ~drive.err =>
          \A k \in 1..Behind : Held(request.lba + k - 1)' = request.data[k]
    <3> SUFFICES ASSUME phase \in {"transfer", "finish", "flush"}, request.kind = "write", ~drive.err,
                        NEW k \in 1..Behind
                 PROVE  Held(request.lba + k - 1)' = request.data[k]
      OBVIOUS
    <3>1. k \in 1..request.count
      BY <1>0, <2>5 DEF Typed
    <3>2. Held(request.lba + k - 1) = request.data[k]
      BY <2>0 DEF InHand
    <3> QED BY <1>1, <1>4, <2>4, <3>1, <3>2
  <2>8. phase \in {"transfer", "finish"} /\ request.kind = "read" =>
          \A k \in 1..Len(request.moved) : request.moved[k] = Held(request.lba + k - 1)'
    <3> SUFFICES ASSUME phase \in {"transfer", "finish"}, request.kind = "read",
                        NEW k \in 1..Len(request.moved)
                 PROVE  request.moved[k] = Held(request.lba + k - 1)'
      OBVIOUS
    <3>1. k \in 1..request.count
      BY <1>0, <2>6 DEF Typed
    <3>2. request.moved[k] = Held(request.lba + k - 1)
      BY <2>0 DEF InHand
    <3> QED BY <1>1, <1>4, <2>4, <3>1, <3>2
  <2>9. drive.at \in Sectors
    BY <1>0 DEF Typed
  <2>10. (\A t \in Sectors : cache[t] = None) => \A t \in Sectors : cache'[t] = None
    BY <1>0, <1>1 DEF Typed
  <2>11. InHand'
    BY <1>1, <1>4, <2>0, <2>3, <2>7, <2>8, <2>9, <2>10 DEF InHand
  <2> QED BY <2>1, <2>2, <2>11
<1> QED BY <1>2, <1>3, <1>5 DEF IInv

\* The drive makes a sector ready to be moved.
LEMMA ReadyKeeps ==
  ASSUME IInv, drive.status = "busy", NEW buffer,
         \/ drive.command = "read" /\ buffer = Held(drive.at)
         \/ drive.command = "write" /\ drive.buffer = None /\ buffer = None,
         drive' = [drive EXCEPT !.status = "drq", !.buffer = buffer],
         UNCHANGED <<present, medium, cache, registers, request, phase, polls, possible, abandoned>>
  PROVE  IInv'
<1>0. Typed /\ DriveOK /\ RequestOK /\ Together
  BY DEF IInv
<1>1. /\ drive'.status = "drq" /\ drive'.err = drive.err /\ drive'.command = drive.command
      /\ drive'.at = drive.at /\ drive'.left = drive.left /\ drive'.buffer = buffer
  BY <1>0 DEF Typed
<1>2. buffer \in Values \cup {None} /\ (drive.command = "read" => buffer \in Values)
  BY <1>0, HeldIsValue DEF Typed
<1>3. Typed'
  <2>1. drive' \in Drives
    BY <1>0, <1>2 DEF Typed
  <2> QED BY <1>0, <2>1 DEF Typed
<1>4. DriveOK'
  BY <1>0, <1>1, <1>2 DEF DriveOK
<1>5. RequestOK'
  BY <1>0, <1>1 DEF RequestOK
<1>6. Together'
  <2> SUFFICES ASSUME ~abandoned PROVE SectorsAsWritten' /\ InStep' /\ InHand'
    BY DEF Together
  <2>0. SectorsAsWritten /\ InStep /\ InHand
    BY <1>0 DEF Together
  <2>1. SectorsAsWritten'
    BY <2>0 DEF SectorsAsWritten, Held
  <2>2. ~Storing /\ ~Storing' /\ Behind' = Behind
    BY <1>1 DEF Storing, Behind
  <2>3. phase = "transfer"
    BY <1>0, <2>0, <2>2 DEF InStep, Typed
  <2>4. InStep'
    BY <1>1, <2>0, <2>2, <2>3 DEF InStep
  <2>5. \A s : Held(s)' = Held(s)
    BY DEF Held
  <2>6. drive'.command = "read" => drive'.buffer = Held(drive'.at)
    BY <1>1
  <2>7. InHand'
    BY <1>1, <2>0, <2>2, <2>3, <2>5, <2>6 DEF InHand
  <2> QED BY <2>1, <2>4, <2>7
<1> QED BY <1>3, <1>4, <1>5, <1>6 DEF IInv

\* The drive puts a sector it was given into its cache.
LEMMA StoreKeeps ==
  ASSUME IInv, Storing,
         cache' = [cache EXCEPT ![drive.at] = drive.buffer],
         drive' = IF drive.left = 1 THEN Idle
                  ELSE [drive EXCEPT !.status = "drq", !.buffer = None, !.at = @ + 1, !.left = @ - 1],
         UNCHANGED <<present, medium, registers, request, phase, polls, possible, abandoned>>
  PROVE  IInv'
<1>0. Typed /\ DriveOK /\ RequestOK /\ Together
  BY DEF IInv
<1>1. /\ drive.status = "busy" /\ drive.command = "write" /\ drive.buffer \in Values
      /\ drive.at \in Sectors /\ drive.left \in Nat /\ drive.left >= 1
      /\ drive.at + drive.left - 1 <= MAX_LBA /\ ~drive.err
  BY <1>0 DEF Typed, DriveOK, Storing
<1>2. \/ drive.left = 1 /\ drive' = Idle
      \/ /\ drive.left # 1 /\ drive'.status = "drq" /\ drive'.command = "write" /\ drive'.buffer = None
         /\ drive'.at = drive.at + 1 /\ drive'.left = drive.left - 1
  BY <1>0, <1>1 DEF Typed
<1>3. ~drive'.err
  <2>1. CASE drive.left = 1
    BY <2>1 DEF Idle
  <2>2. CASE drive.left # 1
    <3>1. drive'.err = drive.err
      BY <1>0, <2>2 DEF Typed
    <3> QED BY <1>1, <3>1
  <2> QED BY <2>1, <2>2
<1>4. Typed'
  <2>1. drive' \in Drives
    <3>1. CASE drive.left = 1
      <4>1. Idle \in Drives
        BY AtaDiskAssumption DEF Idle, Sectors
      <4> QED BY <3>1, <4>1
    <3>2. CASE drive.left # 1
      <4>1. drive.at + 1 \in Sectors /\ drive.left - 1 \in Nat
        BY <1>1, <3>2, AtaDiskAssumption DEF Sectors
      <4>2. drive' = [drive EXCEPT !.status = "drq", !.buffer = None, !.at = @ + 1, !.left = @ - 1]
        BY <3>2
      <4> QED BY <1>0, <4>1, <4>2 DEF Typed
    <3> QED BY <3>1, <3>2
  <2>2. cache' \in [Sectors -> Values \cup {None}]
    BY <1>0, <1>1 DEF Typed
  <2> QED BY <1>0, <2>1, <2>2 DEF Typed
<1>5. DriveOK'
  BY <1>1, <1>2, <1>3, AtaDiskAssumption DEF DriveOK, Sectors, Idle
<1>6. RequestOK'
  BY <1>0, <1>1 DEF RequestOK
<1>7. Together'
  <2> SUFFICES ASSUME ~abandoned PROVE SectorsAsWritten' /\ InStep' /\ InHand'
    BY DEF Together
  <2>0. SectorsAsWritten /\ InStep /\ InHand
    BY <1>0 DEF Together
  <2>a. PICK a \in Sectors : a = drive.at
    BY <1>1
  <2>1. Held(a)' = drive.buffer /\ \A s \in Sectors \ {a} : Held(s)' = Held(s)
    <3>1. cache' = [cache EXCEPT ![a] = drive.buffer] /\ drive.buffer # None
      BY <2>a DEF Storing
    <3> QED BY <1>0, <3>1 DEF Typed, Held
  <2>2. drive.buffer \in possible[drive.at]
    BY <2>0 DEF InHand
  <2>3. SectorsAsWritten'
    <3>1. ASSUME NEW s \in Sectors PROVE {medium[s], Held(s)'} \subseteq possible[s]
      BY <2>0, <2>a, <2>1, <2>2 DEF SectorsAsWritten
    <3> QED BY <3>1 DEF SectorsAsWritten
  <2>4. ~Storing'
    BY <1>2 DEF Storing, Idle
  <2>5. Behind = Len(request.moved) - 1 /\ Behind' = Len(request.moved) /\ Len(request.moved) \in Nat
    BY <1>0, <2>4 DEF Behind, Typed
  <2>6. phase = "transfer" => /\ request.kind = "write" /\ drive.at = request.lba + Len(request.moved) - 1
                              /\ drive.left = request.count - Len(request.moved) + 1
    BY <1>0, <1>1, <2>0, <2>5 DEF InStep, Typed
  <2>7. phase = "transfer" => drive.left # 1
    BY <1>0, <2>5, <2>6 DEF RequestOK, Typed
  <2>8. phase # "transfer" => drive.left = 1
    BY <1>1, <2>0 DEF InStep
  <2>9. InStep'
    <3>1. CASE phase = "transfer"
      <4>1. drive'.at = request.lba + Len(request.moved) /\ drive'.left = request.count - Len(request.moved)
        <5>1. drive'.at = drive.at + 1 /\ drive'.left = drive.left - 1
          BY <1>2, <2>7, <3>1
        <5>2. request.lba \in Nat /\ request.count \in Nat
          BY <1>0 DEF Typed
        <5>3. PICK m : m = Len(request.moved)
          OBVIOUS
        <5>4. drive.at = request.lba + m - 1 /\ drive.left = request.count - m + 1 /\ m \in Nat
          BY <2>5, <2>6, <3>1, <5>3
        <5>5. drive'.at = request.lba + m /\ drive'.left = request.count - m
          BY <5>1, <5>2, <5>4
        <5> QED BY <5>3, <5>5
      <4> QED BY <1>2, <2>5, <2>6, <2>7, <3>1, <4>1 DEF InStep
    <3>2. CASE phase # "transfer"
      <4>1. drive' = Idle
        BY <1>2, <2>8, <3>2
      <4>2. drive'.status = "ready"
        BY <4>1, IdleFields
      <4> QED BY <3>2, <4>2 DEF InStep
    <3> QED BY <3>1, <3>2
  <2>10. phase # "flush"
    BY <1>1, <2>0 DEF InStep
  <2>11. phase \in {"transfer", "finish"} => request.kind = "write"
    BY <1>1, <2>0, <2>6 DEF InStep
  <2>12. phase \in {"transfer", "finish"} =>
           \A k \in 1..Len(request.moved) : Held(request.lba + k - 1)' = request.data[k]
    <3> SUFFICES ASSUME phase \in {"transfer", "finish"}, NEW k \in 1..Len(request.moved)
                 PROVE  Held(request.lba + k - 1)' = request.data[k]
      OBVIOUS
    <3>1. drive.at = request.lba + Len(request.moved) - 1 /\ request.lba \in Nat
      BY <1>0, <1>1, <2>0, <2>5, <2>6 DEF InStep, Typed
    <3>2. drive.buffer = request.data[Len(request.moved)]
      BY <2>0 DEF InHand
    <3>3. CASE k = Len(request.moved)
      <4>1. request.lba + k - 1 = a
        BY <2>a, <3>1, <3>3
      <4> QED BY <2>1, <3>2, <3>3, <4>1
    <3>4. CASE k # Len(request.moved)
      <4>1. k \in 1..Behind /\ k \in 1..request.count /\ request.lba + k - 1 # drive.at
        <5>1. PICK m \in Nat : m = Len(request.moved)
          BY <2>5
        <5>2. k \in 1..m /\ k # m /\ Behind = m - 1 /\ drive.at = request.lba + m - 1
          BY <2>5, <3>1, <3>4, <5>1
        <5>3. m <= request.count /\ request.count \in Nat /\ request.lba \in Nat
          BY <1>0, <5>1 DEF Typed, RequestOK
        <5> QED BY <5>2, <5>3
      <4>2. request.lba + k - 1 \in Sectors
        BY <1>0, <4>1, AskedOnDisk
      <4>3. Held(request.lba + k - 1) = request.data[k]
        BY <1>1, <2>0, <2>11, <4>1 DEF InHand
      <4> QED BY <2>a, <2>1, <4>1, <4>2, <4>3
    <3> QED BY <3>3, <3>4
  <2>13. drive'.status = "drq" => drive'.command = "write"
    BY <1>2 DEF Idle
  <2>14. InHand'
    BY <2>0, <2>4, <2>5, <2>10, <2>11, <2>12, <2>13 DEF InHand
  <2> QED BY <2>3, <2>9, <2>14
<1> QED BY <1>4, <1>5, <1>6, <1>7 DEF IInv

\* The drive has emptied its cache.
LEMMA EmptiedKeeps ==
  ASSUME IInv, drive.status = "busy", drive.command = "flush",
         medium' = [s \in Sectors |-> Held(s)], cache' = [s \in Sectors |-> None], drive' = Idle,
         UNCHANGED <<present, registers, request, phase, polls, possible, abandoned>>
  PROVE  IInv'
<1>0. Typed /\ DriveOK /\ RequestOK /\ Together
  BY DEF IInv
<1>1. drive'.status = "ready" /\ ~drive'.err
  BY IdleFields
<1>2. Typed'
  <2>1. medium' \in [Sectors -> Values] /\ cache' \in [Sectors -> Values \cup {None}]
    BY <1>0, HeldIsValue
  <2> QED BY <1>0, <2>1, IdleFields DEF Typed
<1>3. DriveOK'
  BY <1>1 DEF DriveOK
<1>4. RequestOK'
  BY <1>0, <1>1 DEF RequestOK
<1>5. \A s \in Sectors : Held(s)' = Held(s) /\ medium'[s] = Held(s)
  BY DEF Held
<1>6. Together'
  <2> SUFFICES ASSUME ~abandoned PROVE SectorsAsWritten' /\ InStep' /\ InHand'
    BY DEF Together
  <2>0. SectorsAsWritten /\ InStep /\ InHand
    BY <1>0 DEF Together
  <2>1. SectorsAsWritten'
    BY <1>5, <2>0 DEF SectorsAsWritten
  <2>2. ~Storing /\ ~Storing' /\ Behind' = Behind
    BY <1>1 DEF Storing, Behind
  <2>3. phase \notin {"transfer", "finish"}
    <3>1. request.kind # "flush" /\ ~drive.err
      BY <1>0 DEF Typed, DriveOK
    <3> QED BY <2>0, <2>2, <3>1 DEF InStep
  <2>4. InStep'
    BY <1>1, <2>3 DEF InStep
  <2>5. phase = "flush" => \A k \in 1..Behind : Held(request.lba + k - 1)' = request.data[k]
    <3> SUFFICES ASSUME phase = "flush", NEW k \in 1..Behind
                 PROVE  Held(request.lba + k - 1)' = request.data[k]
      OBVIOUS
    <3>1. k \in 1..request.count /\ request.kind = "write"
      BY <1>0, <2>2 DEF RequestOK, Behind
    <3>2. request.lba + k - 1 \in Sectors
      BY <1>0, <3>1, AskedOnDisk
    <3>3. Held(request.lba + k - 1) = request.data[k]
      BY <1>0, <2>0, <3>1 DEF InHand, DriveOK
    <3> QED BY <1>5, <3>2, <3>3
  <2>6. \A s \in Sectors : cache'[s] = None
    OBVIOUS
  <2>7. InHand'
    BY <1>1, <2>0, <2>2, <2>3, <2>5, <2>6 DEF InHand
  <2> QED BY <2>1, <2>4, <2>7
<1> QED BY <1>2, <1>3, <1>4, <1>6 DEF IInv

\* A command that fails leaves what the sectors hold, and ERR.
LEMMA DriveFailsKeeps ==
  ASSUME IInv, DriveFails
  PROVE  IInv'
<1>0. Typed /\ DriveOK /\ RequestOK /\ Together
  BY DEF IInv
<1>1. /\ drive' = [Idle EXCEPT !.err = TRUE]
      /\ UNCHANGED <<present, medium, cache, registers, request, phase, polls, possible, abandoned>>
  BY DEF DriveFails
<1>2. /\ drive'.status = "ready" /\ drive'.err
      /\ drive' \in Drives
  <2>1. 0 \in Sectors
    BY AtaDiskAssumption DEF Sectors
  <2>2. drive' = [status |-> "ready", err |-> TRUE, command |-> None, at |-> 0, left |-> 0,
                  buffer |-> None]
    BY <1>1 DEF Idle
  <2> QED BY <2>1, <2>2
<1>3. Typed'
  BY <1>0, <1>1, <1>2 DEF Typed
<1>4. DriveOK'
  BY <1>2 DEF DriveOK
<1>5. RequestOK'
  BY <1>0, <1>1, <1>2 DEF RequestOK
<1>6. Together'
  <2> SUFFICES ASSUME ~abandoned PROVE SectorsAsWritten' /\ InStep' /\ InHand'
    BY <1>1 DEF Together
  <2>0. SectorsAsWritten /\ InHand
    BY <1>0 DEF Together
  <2>1. SectorsAsWritten'
    BY <1>1, <2>0 DEF SectorsAsWritten, Held
  <2>2. InStep'
    BY <1>2 DEF InStep
  <2>3. \A s : Held(s)' = Held(s)
    BY <1>1 DEF Held
  <2>4. InHand'
    BY <1>1, <1>2, <2>0, <2>3 DEF InHand, Storing
  <2> QED BY <2>1, <2>2, <2>4
<1> QED BY <1>3, <1>4, <1>5, <1>6 DEF IInv

\* After a loss of power the medium has what it had.
LEMMA PowerLossKeeps ==
  ASSUME IInv, PowerLoss
  PROVE  IInv'
<1>0. Typed /\ DriveOK /\ RequestOK /\ Together
  BY DEF IInv
<1>1. /\ cache' = [s \in Sectors |-> None] /\ drive' = Idle /\ request' = NoRequest
      /\ phase' = "idle" /\ polls' = 0
      /\ possible' = IF abandoned THEN [s \in Sectors |-> {medium[s]}] ELSE possible
      /\ UNCHANGED <<present, medium, registers>>
  BY DEF PowerLoss
<1>a. abandoned' = FALSE
  BY DEF PowerLoss
<1>2. drive'.status = "ready" /\ ~drive'.err
  BY <1>1, IdleFields
<1>3. Typed'
  <2>1. NoRequest \in Requests
    BY DEF NoRequest
  <2>2. possible' \in [Sectors -> SUBSET Values] /\ cache' \in [Sectors -> Values \cup {None}]
    BY <1>0, <1>1 DEF Typed
  <2>3. drive' \in Drives
    BY <1>1, IdleFields
  <2>4. 0 \in 0..WAIT_LIMIT
    BY AtaDiskAssumption
  <2> QED BY <1>0, <1>1, <1>a, <2>1, <2>2, <2>3, <2>4 DEF Typed
<1>4. DriveOK'
  BY <1>2 DEF DriveOK
<1>5. RequestOK'
  BY <1>0, <1>1, <1>2 DEF RequestOK
<1>6. Together'
  <2>1. \A s \in Sectors : Held(s)' = medium[s] /\ medium'[s] = medium[s] /\ medium[s] \in possible'[s]
    BY <1>0, <1>1 DEF Held, Together, SectorsAsWritten
  <2>2. SectorsAsWritten'
    BY <2>1 DEF SectorsAsWritten
  <2>3. InStep' /\ InHand'
    BY <1>1, <1>2 DEF InStep, InHand, Storing
  <2> QED BY <2>2, <2>3 DEF Together
<1> QED BY <1>3, <1>4, <1>5, <1>6 DEF IInv

\* One step of the driver, of a caller, of the drive, or of the power supply.
LEMMA NextIInv == IInv /\ [Next]_vars => IInv'
<1> SUFFICES ASSUME IInv, [Next]_vars PROVE IInv'
  OBVIOUS
<1>0. Typed /\ DriveOK /\ RequestOK /\ Together
  BY DEF IInv
<1>1. ASSUME NEW lba \in 0..(MAX_LBA + 1), NEW count \in 0..MAX_COUNT, NEW data \in Input,
             Request("write", lba, count, data)
      PROVE  IInv'
  <2>1. PICK n \in 0..MAX_COUNT : data \in [1..n -> Values]
    BY DEF Input
  <2>2. data \in Seq(Values \cup {None}) /\ \A k \in 1..Len(data) : data[k] \in Values
    BY <2>1, AtaDiskAssumption
  <2> QED BY <1>1, <2>2, RequestKeeps, AtaDiskAssumption
<1>2. ASSUME NEW lba \in 0..(MAX_LBA + 1), NEW count \in 0..MAX_COUNT, NEW data \in Output,
             Request("read", lba, count, data)
      PROVE  IInv'
  <2>1. PICK n \in 0..MAX_COUNT : data \in [1..n -> {None}]
    BY DEF Output
  <2>2. data \in Seq(Values \cup {None})
    BY <2>1, AtaDiskAssumption
  <2> QED BY <1>2, <2>2, RequestKeeps, AtaDiskAssumption
<1>3. CASE Poll
  BY <1>3, PollKeeps
<1>4. CASE DriveWorks
  <2>1. /\ drive.status = "busy"
        /\ UNCHANGED <<present, registers, request, phase, polls, result, possible, abandoned>>
    BY <1>4 DEF DriveWorks
  <2>2. drive.command \in {"read", "write", "flush"}
    BY <1>0, <2>1 DEF Typed, DriveOK
  <2>3. CASE drive.command = "read"
    <3>1. drive' = [drive EXCEPT !.status = "drq", !.buffer = Held(drive.at)] /\ UNCHANGED <<medium, cache>>
      BY <1>4, <2>3 DEF DriveWorks
    <3> QED BY <2>1, <2>3, <3>1, ReadyKeeps
  <2>4. CASE drive.command = "write" /\ drive.buffer = None
    <3>1. drive' = [drive EXCEPT !.status = "drq"] /\ UNCHANGED <<medium, cache>>
      BY <1>4, <2>4 DEF DriveWorks
    <3>2. drive' = [drive EXCEPT !.status = "drq", !.buffer = None]
      BY <1>0, <2>4, <3>1 DEF Typed
    <3> QED BY <2>1, <2>4, <3>1, <3>2, ReadyKeeps
  <2>5. CASE drive.command = "write" /\ drive.buffer # None
    BY <1>4, <2>1, <2>5, StoreKeeps DEF DriveWorks, Storing
  <2>6. CASE drive.command = "flush"
    BY <1>4, <2>1, <2>6, EmptiedKeeps DEF DriveWorks
  <2> QED BY <2>2, <2>3, <2>4, <2>5, <2>6
<1>5. CASE DriveFails
  BY <1>5, DriveFailsKeeps
<1>6. CASE PowerLoss
  BY <1>6, PowerLossKeeps
<1>7. ASSUME NEW s \in Sectors, WriteBack(s) PROVE IInv'
  BY <1>7, WriteBackKeeps
<1>8. CASE UNCHANGED vars
  <2>a. Typed'
    BY <1>0, <1>8 DEF vars, Typed
  <2>b. DriveOK'
    BY <1>0, <1>8 DEF vars, DriveOK
  <2>c. RequestOK'
    BY <1>0, <1>8 DEF vars, RequestOK
  <2>1. Typed' /\ DriveOK' /\ RequestOK'
    BY <2>a, <2>b, <2>c
  <2>2. Together'
    BY <1>0, <1>8 DEF vars, Together, SectorsAsWritten, InStep, InHand, Storing, Behind, Held
  <2> QED BY <2>1, <2>2 DEF IInv
<1> QED BY <1>1, <1>2, <1>3, <1>4, <1>5, <1>6, <1>7, <1>8 DEF Next

-----------------------------------------------------------------------------

\* The drive and the driver keep the invariant for ever.
THEOREM AtaInvariant == Spec => []IInv
  BY InitIInv, NextIInv, PTL DEF Spec

\* The drive never leaves the disk, the driver never the request.
THEOREM AtaTypes == Spec => []TypeOK
<1>1. IInv => TypeOK
  <2> SUFFICES ASSUME IInv PROVE TypeOK
    OBVIOUS
  <2>1. Len(request.moved) <= request.count
    <3>1. phase = "idle" => request.moved = <<>> /\ request.count = 0
      BY DEF IInv, RequestOK, NoRequest
    <3> QED BY <3>1 DEF IInv, Typed, RequestOK
  <2> QED BY <2>1 DEF IInv, Typed, TypeOK
<1> QED BY <1>1, AtaInvariant, PTL

\* write_sectors keeps its promise through failures, timeouts outside of a
\* transfer and losses of power.
THEOREM WritesAreKept == Spec => []SectorsAsWritten
<1>1. IInv => SectorsAsWritten
  BY DEF IInv, Together, SectorsAsWritten
<1> QED BY <1>1, AtaInvariant, PTL

\* read_sectors returns the sectors it was asked for.
THEOREM ReadsAreRight == Spec => []ReadsWhatIsHeld
<1>1. IInv => ReadsWhatIsHeld
  <2> SUFFICES ASSUME IInv, phase = "finish", request.kind = "read", ~abandoned
               PROVE  request.moved = [k \in 1..request.count |-> Held(request.lba + k - 1)]
    BY DEF ReadsWhatIsHeld
  <2>1. /\ request.moved \in Seq(Values \cup {None}) /\ Len(request.moved) = request.count
        /\ \A k \in 1..Len(request.moved) : request.moved[k] = Held(request.lba + k - 1)
    BY DEF IInv, Typed, RequestOK, Together, InHand
  <2> QED BY <2>1
<1> QED BY <1>1, AtaInvariant, PTL

\* Only a restart of the machine clears ERR once the drive has set it: neither
\* the driver nor the drive gets there before.
THEOREM ErrorsAreFinal == Spec => ErrorIsFinal
<1>1. IInv /\ [Next]_vars => [(drive.err /\ ~drive'.err) => PowerLoss]_vars
  <2> SUFFICES ASSUME IInv, Next, drive.err, ~drive'.err PROVE PowerLoss
    OBVIOUS
  <2>1. drive.status = "ready"
    BY DEF IInv, DriveOK
  <2>2. ~DriveWorks /\ ~DriveFails
    BY <2>1 DEF DriveWorks, DriveFails
  <2>3. ~Poll
    BY DEF Poll, Fail, Return, Busy
  <2>4. \A s \in Sectors : ~WriteBack(s)
    BY DEF WriteBack
  <2>5. \A kind, lba, count, data : ~Request(kind, lba, count, data)
    BY DEF Request
  <2> QED BY <2>2, <2>3, <2>4, <2>5 DEF Next
<1> QED BY <1>1, AtaInvariant, PTL DEF Spec, ErrorIsFinal
=============================================================================
