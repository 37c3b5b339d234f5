------------------------------ MODULE DeviceProofs ------------------------------
(***************************************************************************)
(* Proofs about the parts that keep tables, for every value of their       *)
(* constants: files, the Wi-Fi handlers with the listening socket, the     *)
(* handles of the peripherals, the PWM channels, and the log queue; and    *)
(* about the parts together, with EventProofs and TextProofs.              *)
(***************************************************************************)
EXTENDS MCDeviceParts, EventProofs, TextProofs

-----------------------------------------------------------------------------
(* The file system.                                                        *)

\* What an FS_WRITE under way has put into its file: its own bytes, and no other.
WritingInv ==
    writing # NotWriting =>
        /\ writing.path \in Paths
        /\ writing.size \in 0..MAX_FILE_BYTES
        /\ writing.done \in 0..writing.size
        /\ writes \in 1..MaxWrites
        /\ files[writing.path] \in [1..writing.done -> {writes}]

FsInv == FsTypeOK /\ OneWriteEach /\ WritingInv

\* The two bounds are numbers.
LEMMA FsBounds == MAX_FILE_BYTES \in Nat /\ MaxWrites \in Nat
BY FsAssumption

\* A byte more of the same write.
LEMMA OneByteMore ==
    ASSUME NEW n \in Nat, NEW w, NEW f \in [1..n -> {w}]
    PROVE  /\ Len(f) = n
           /\ Append(f, w) \in [1..(n + 1) -> {w}]
<1>1. f \in Seq({w}) /\ Len(f) = n
    OBVIOUS
<1>2. /\ Append(f, w) \in Seq({w})
      /\ Len(Append(f, w)) = n + 1
    BY <1>1, AppendProperties
<1>3. Append(f, w) \in [1..(n + 1) -> {w}]
    BY <1>2, LenProperties
<1> QED BY <1>1, <1>3

LEMMA FsInitial == FsInit => FsInv
<1> SUFFICES ASSUME FsInit PROVE FsInv
    OBVIOUS
<1>1. FsTypeOK
    <2>1. files \in [Paths -> Contents \cup {NoFile}]
      BY DEF FsInit
    <2>2. writes \in 0..MaxWrites
      BY FsBounds DEF FsInit
    <2>3. s_mounted \in BOOLEAN /\ registered \in BOOLEAN /\ (s_mounted => registered)
      BY DEF FsInit
    <2>4. writing = NotWriting
      BY DEF FsInit
    <2> QED BY <2>1, <2>2, <2>3, <2>4 DEF FsTypeOK
<1> QED BY <1>1 DEF FsInit, FsInv, OneWriteEach, WritingInv

LEMMA FsStep == FsInv /\ [FsNext]_fsVars => FsInv'
<1> SUFFICES ASSUME FsInv, [FsNext]_fsVars PROVE FsInv'
    OBVIOUS
<1> USE DEF FsInv
<1>0. Erased \in [Paths -> Contents \cup {NoFile}] /\ \A p \in Paths : Erased[p] = NoFile
    BY DEF Erased
<1>1. CASE EnsureMount
    <2>1. FsTypeOK'
        BY <1>0, <1>1 DEF EnsureMount, FsTypeOK
    <2>2. OneWriteEach' /\ WritingInv'
        BY <1>0, <1>1 DEF EnsureMount, OneWriteEach, WritingInv
    <2> QED BY <2>1, <2>2
<1>2. ASSUME NEW p \in Paths, NEW n \in 0..MAX_FILE_BYTES, OpenForWrite(p, n)
      PROVE  FsInv'
    <2>1. <<>> \in Contents /\ <<>> \in [1..0 -> {writes'}] /\ Len(<<>>) = 0
        BY FsBounds DEF Contents
    <2>2. writes' \in 1..MaxWrites
        BY <1>2, FsBounds DEF OpenForWrite, FsTypeOK
    <2>3. FsTypeOK'
        <3>1. files' \in [Paths -> Contents \cup {NoFile}]
            BY <1>2, <2>1 DEF OpenForWrite, Truncated, FsTypeOK
        <3>2. writing' \in [path : Paths, size : 0..MAX_FILE_BYTES, done : 0..MAX_FILE_BYTES]
            BY <1>2, FsBounds DEF OpenForWrite
        <3>3. writes' \in 0..MaxWrites
            BY <2>2, FsBounds
        <3>4. UNCHANGED <<s_mounted, registered>>
            BY <1>2 DEF OpenForWrite
        <3> QED BY <3>1, <3>2, <3>3, <3>4 DEF FsTypeOK
    <2>4. OneWriteEach'
        BY <1>2, <2>1 DEF OpenForWrite, Truncated, OneWriteEach, FsTypeOK
    <2>5. WritingInv'
        BY <1>2, <2>1, <2>2, FsBounds DEF OpenForWrite, Truncated, WritingInv, FsTypeOK
    <2> QED BY <2>3, <2>4, <2>5
<1>3. CASE FlushByte
    <2> DEFINE q == writing.path
               n == writing.done
    <2>1. writing # NotWriting
        BY <1>3 DEF FlushByte, NotWriting
    <2>2. /\ q \in Paths /\ n \in Nat /\ n + 1 <= writing.size
          /\ files[q] \in [1..n -> {writes}] /\ writes \in 1..MaxWrites
          /\ writing.size \in 0..MAX_FILE_BYTES
        BY <1>3, <2>1, FsBounds DEF FlushByte, WritingInv
    <2>3. Len(files[q]) = n /\ Append(files[q], writes) \in [1..(n + 1) -> {writes}]
        BY <2>2, OneByteMore
    <2>4. files' = [files EXCEPT ![q] = Append(files[q], writes)]
        <3>1. ~(n + 1 <= Len(files[q]))
            BY <2>2, <2>3
        <3> QED BY <1>3, <3>1 DEF FlushByte
    <2>5. Append(files[q], writes) \in Contents
        <3>1. n + 1 \in 0..MAX_FILE_BYTES
            BY <2>2, FsBounds
        <3>2. [1..(n + 1) -> {writes}] \subseteq [1..(n + 1) -> 1..MaxWrites]
            BY <2>2
        <3>3. Append(files[q], writes) \in [1..(n + 1) -> 1..MaxWrites]
            BY <2>3, <3>2
        <3> QED BY <3>1, <3>3 DEF Contents
    <2>6. writing' = [writing EXCEPT !.done = n + 1] /\ writes' = writes
        BY <1>3 DEF FlushByte
    <2>7. writing \in [path : Paths, size : 0..MAX_FILE_BYTES, done : 0..MAX_FILE_BYTES]
        BY <2>1 DEF FsTypeOK
    <2>8. FsTypeOK'
        <3>1. files' \in [Paths -> Contents \cup {NoFile}]
            BY <2>4, <2>5 DEF FsTypeOK
        <3>2. writing' \in [path : Paths, size : 0..MAX_FILE_BYTES, done : 0..MAX_FILE_BYTES]
            BY <2>2, <2>6, <2>7, FsBounds
        <3>3. UNCHANGED <<s_mounted, registered, writes>>
            BY <1>3 DEF FlushByte
        <3> QED BY <3>1, <3>2, <3>3 DEF FsTypeOK
    <2>9. /\ files'[q] \in [1..(n + 1) -> {writes}]
          /\ \A p \in Paths : p # q => files'[p] = files[p]
        BY <2>2, <2>3, <2>4 DEF FsTypeOK
    <2>10. OneWriteEach'
        <3> SUFFICES ASSUME NEW p \in Paths, files'[p] # NoFile,
                            NEW i \in 1..Len(files'[p]), NEW j \in 1..Len(files'[p])
                     PROVE  files'[p][i] = files'[p][j]
            BY DEF OneWriteEach
        <3>1. CASE p = q
            <4>1. Len(files'[q]) = n + 1
                BY <2>2, <2>9
            <4> QED BY <3>1, <4>1, <2>9
        <3>2. CASE p # q
            BY <3>2, <2>9 DEF OneWriteEach
        <3> QED BY <3>1, <3>2
    <2>11. WritingInv'
        BY <2>2, <2>6, <2>7, <2>9 DEF WritingInv
    <2> QED BY <2>8, <2>10, <2>11
<1>4. CASE Close
    BY <1>4 DEF Close, FsTypeOK, OneWriteEach, WritingInv
<1>5. ASSUME NEW p \in Paths, Delete(p) PROVE FsInv'
    <2>1. FsTypeOK'
        BY <1>5 DEF Delete, FsTypeOK
    <2>2. OneWriteEach'
        BY <1>5 DEF Delete, OneWriteEach, FsTypeOK
    <2>3. WritingInv'
        BY <1>5 DEF Delete, Ready, WritingInv
    <2> QED BY <2>1, <2>2, <2>3
<1>6. ASSUME NEW ok \in BOOLEAN, Format(ok) PROVE FsInv'
    <2>1. FsTypeOK'
        BY <1>0, <1>6 DEF Format, FsTypeOK
    <2>2. OneWriteEach' /\ WritingInv'
        BY <1>0, <1>6 DEF Format, OneWriteEach, WritingInv
    <2> QED BY <2>1, <2>2
<1>7. CASE PowerLoss
    BY <1>7 DEF PowerLoss, FsTypeOK, OneWriteEach, WritingInv
<1>8. CASE UNCHANGED fsVars
    BY <1>8 DEF fsVars, FsTypeOK, OneWriteEach, WritingInv, NotWriting
<1> QED BY <1>1, <1>2, <1>3, <1>4, <1>5, <1>6, <1>7, <1>8 DEF FsNext

\* The inductive invariant of the files: the one being written holds what of its
\* own write has reached the flash, and no other file changes (fs.c 68-131).
THEOREM FsInvariance == FsSpec => []FsInv
BY FsInitial, FsStep, PTL DEF FsSpec

\* What the code takes for mounted is registered, and no file passes the buffer
\* it is written from (fs.c 20-33, 88-131).
THEOREM FsTypeCorrect == FsSpec => []FsTypeOK
<1>1. FsInv => FsTypeOK
    BY DEF FsInv
<1> QED BY <1>1, FsInvariance, PTL

\* Whatever is deleted, formatted or cut off by a power loss, a file never holds
\* bytes of two writes: "wb" empties it first (fs.c 95-105).
THEOREM NoMixedFile == FsSpec => []OneWriteEach
<1>1. FsInv => OneWriteEach
    BY DEF FsInv
<1> QED BY <1>1, FsInvariance, PTL

-----------------------------------------------------------------------------
(* The Wi-Fi handlers and the listening socket.                            *)

WifiEvents == {"AP_START", "STA_START", "STA_DISCONNECTED", "GOT_IP"}

LostInQueue == \E i \in 1..Len(events) : events[i] = "STA_DISCONNECTED"

\* A queued disconnection stays queued when an event follows it.
LEMMA QueueEvent ==
    ASSUME events \in Seq(WifiEvents), NEW e \in WifiEvents, events' = Append(events, e)
    PROVE  /\ events' \in Seq(WifiEvents)
           /\ LostInQueue \/ e = "STA_DISCONNECTED" => LostInQueue'
<1>1. /\ events' \in Seq(WifiEvents)
      /\ Len(events') = Len(events) + 1 /\ Len(events) \in Nat
      /\ events'[Len(events) + 1] = e
      /\ \A i \in 1..Len(events) : events'[i] = events[i]
    BY AppendProperties, LenProperties
<1>2. CASE LostInQueue
    <2>1. PICK i \in 1..Len(events) : events[i] = "STA_DISCONNECTED"
        BY <1>2 DEF LostInQueue
    <2>2. i \in 1..Len(events') /\ events'[i] = "STA_DISCONNECTED"
        BY <1>1, <2>1
    <2> QED BY <1>1, <2>2 DEF LostInQueue
<1>3. CASE e = "STA_DISCONNECTED"
    <2>1. Len(events') \in 1..Len(events')
        BY <1>1
    <2> QED BY <1>1, <1>3, <2>1 DEF LostInQueue
<1> QED BY <1>1, <1>2, <1>3

\* Handling another event leaves it queued.
LEMMA DequeueEvent ==
    ASSUME events \in Seq(WifiEvents), events # <<>>, events' = Tail(events)
    PROVE  /\ events' \in Seq(WifiEvents)
           /\ LostInQueue /\ Head(events) # "STA_DISCONNECTED" => LostInQueue'
<1>1. /\ events' \in Seq(WifiEvents)
      /\ Len(events') = Len(events) - 1 /\ Len(events) \in Nat
      /\ \A i \in 1..Len(events') : events'[i] = events[i + 1]
      /\ Head(events) = events[1]
    BY HeadTailProperties, LenProperties
<1>2. ASSUME LostInQueue, Head(events) # "STA_DISCONNECTED" PROVE LostInQueue'
    <2>1. PICK i \in 1..Len(events) : events[i] = "STA_DISCONNECTED"
        BY <1>2 DEF LostInQueue
    <2>2. i - 1 \in 1..Len(events') /\ (i - 1) + 1 = i
        BY <1>1, <1>2, <2>1
    <2>3. events'[i - 1] = "STA_DISCONNECTED"
        BY <1>1, <2>1, <2>2
    <2> QED BY <2>2, <2>3 DEF LostInQueue
<1> QED BY <1>1, <1>2

LEMMA ListenerInitial == ListenerInit => ListenerTypeOK
<1> SUFFICES ASSUME ListenerInit PROVE ListenerTypeOK
    OBVIOUS
<1>1. events \in Seq(WifiEvents)
    <2>1. <<"AP_START">> \in Seq(WifiEvents) /\ <<"STA_START">> \in Seq(WifiEvents)
        BY DEF WifiEvents
    <2> QED BY <2>1 DEF ListenerInit
<1>2. backoff_ms \in Attempts
    BY DEF ListenerInit, Attempts
<1> QED BY <1>1, <1>2 DEF ListenerInit, ListenerTypeOK, WifiEvents

\* What the server task's own steps leave true of it.
LEMMA ServerStepTypes ==
    ASSUME ListenerTypeOK, ServerStep
    PROVE  ListenerTypeOK'
<1> USE DEF ListenerTypeOK
<1>0. UNCHANGED <<wifiVars, peer, lsockDead, calm>>
    BY DEF ServerStep
<1>1. CASE WaitForIp
    BY <1>0, <1>1 DEF WaitForIp, wifiVars
<1>2. CASE OpenSocket
    BY <1>0, <1>2 DEF OpenSocket, Retry, wifiVars
<1>3. CASE Bind
    BY <1>0, <1>3 DEF Bind, Retry, wifiVars
<1>4. CASE Listen
    BY <1>0, <1>4 DEF Listen, Retry, Attempts, wifiVars
<1>5. CASE Backoff
    <2>1. backoff_ms' \in Attempts
        BY <1>5 DEF Backoff, Doubled, Attempts
    <2> QED BY <1>0, <1>5, <2>1 DEF Backoff, wifiVars
<1> QED BY <1>1, <1>2, <1>3, <1>4, <1>5 DEF ServerStep

LEMMA ListenerStep == ListenerTypeOK /\ [ListenerNext]_listenerVars => ListenerTypeOK'
<1> SUFFICES ASSUME ListenerTypeOK, [ListenerNext]_listenerVars PROVE ListenerTypeOK'
    OBVIOUS
<1> USE DEF ListenerTypeOK
<1>0. events \in Seq(WifiEvents) /\ (station = "idle" => reconnecting \/ LostInQueue)
    BY DEF WifiEvents, LostInQueue
<1>1. CASE HandleEvent
    <2>1. /\ events' \in Seq(WifiEvents)
          /\ LostInQueue /\ Head(events) # "STA_DISCONNECTED" => LostInQueue'
        BY <1>0, <1>1, DequeueEvent DEF HandleEvent
    <2>2. UNCHANGED <<serverVars, peer, reconnecting, lsockDead, calm>>
        BY <1>1 DEF HandleEvent
    <2>3. /\ s_ap_mode' \in BOOLEAN /\ s_online' \in BOOLEAN
          /\ station' \in {"off", "idle", "connecting", "associated", "up"}
          /\ station' = "idle" => station = "idle" /\ Head(events) # "STA_DISCONNECTED"
        BY <1>1 DEF HandleEvent, OnStaStart, OnStaDisconnected, OnGotIp, OnApStart,
                    AfterDisconnect, Connect
    <2>4. station' = "idle" => reconnecting' \/ LostInQueue'
        BY <1>0, <2>1, <2>2, <2>3
    <2> QED BY <2>1, <2>2, <2>3, <2>4 DEF serverVars, WifiEvents, LostInQueue
<1>2. CASE Associate
    BY <1>2 DEF Associate, serverVars
<1>3. CASE GetAddress \/ DropLink
    <2>1. PICK e \in WifiEvents : events' = Append(events, e) /\ (station' = "idle" => e = "STA_DISCONNECTED")
        BY <1>3 DEF GetAddress, DropLink, WifiEvents
    <2>2. events' \in Seq(WifiEvents) /\ (station' = "idle" => LostInQueue')
        BY <1>0, <2>1, QueueEvent
    <2> QED BY <1>3, <2>2 DEF GetAddress, DropLink, serverVars, WifiEvents, LostInQueue
<1>4. CASE Disconnect
    <2>1. events' \in Seq(WifiEvents)
        <3>1. CASE events' = events
            BY <1>0, <3>1
        <3>2. CASE events' = Append(events, "STA_DISCONNECTED")
            BY <1>0, <3>2, QueueEvent DEF WifiEvents
        <3> QED BY <1>4, <3>1, <3>2 DEF Disconnect
    <2> QED BY <1>4, <2>1 DEF Disconnect, serverVars, WifiEvents
<1>5. CASE ThenConnect
    BY <1>5 DEF ThenConnect, Connect, serverVars
<1>6. CASE ServerStep
    BY <1>6, ServerStepTypes
<1>7. CASE Accept
    BY <1>7 DEF Accept, wifiVars
<1>8. CASE AcceptFails \/ AcceptAgain
    BY <1>8 DEF AcceptFails, AcceptAgain, wifiVars
<1>9. CASE EndSession
    BY <1>9 DEF EndSession, wifiVars
<1>10. CASE Vanish \/ CalmDown
    BY <1>10 DEF Vanish, CalmDown, serverVars, wifiVars
<1>11. CASE UNCHANGED listenerVars
    BY <1>11 DEF listenerVars, serverVars, wifiVars
<1> QED BY <1>1, <1>2, <1>3, <1>4, <1>5, <1>6, <1>7, <1>8, <1>9, <1>10, <1>11
        DEF ListenerNext

\* The flags, the back-off and the server task's state stay of their types, and
\* a station that is not trying to connect either waits for wifi_apply's second
\* step or has a disconnect event queued that makes it try (net.c 49-94, 427-476).
THEOREM ListenerTypeCorrect == ListenerSpec => []ListenerTypeOK
BY ListenerInitial, ListenerStep, PTL DEF ListenerSpec

-----------------------------------------------------------------------------
(* The peripheral handles.                                                 *)

\* HandlesHold with the types of the handles, and one transfer at a time.
HandlesInv ==
    /\ HandlesHold
    /\ s_bus \subseteq I2cPorts /\ transfer \subseteq s_bus
    /\ \A p, q \in transfer : p = q
    /\ attached \in [I2cPorts -> Nat]
    /\ s_dev \subseteq s_bus_inited /\ s_bus_inited \subseteq SpiHosts
    /\ spi_devices \in [SpiHosts -> Nat]
    /\ s_h \in BOOLEAN /\ s_dac \subseteq DacChannels /\ adc_ready \subseteq AdcChannels

LEMMA DriversInitial == DriversInit => HandlesInv
<1> SUFFICES ASSUME DriversInit PROVE HandlesInv
    OBVIOUS
<1>1. attached = [p \in I2cPorts |-> 0] /\ spi_devices = [h \in SpiHosts |-> 0]
    BY DEF DriversInit
<1>2. attached \in [I2cPorts -> Nat] /\ spi_devices \in [SpiHosts -> Nat]
    BY <1>1
<1>3. HandlesHold
    BY <1>1 DEF DriversInit, HandlesHold
<1> QED BY <1>2, <1>3 DEF DriversInit, HandlesInv

LEMMA I2cStep ==
    ASSUME HandlesInv, I2c
    PROVE  HandlesInv'
<1> USE DEF HandlesInv, HandlesHold
<1>0. UNCHANGED <<spiVars, pwmVars, dacVars, adcVars>>
    BY DEF I2c
<1>1. ASSUME NEW p \in I2cPorts, I2cInit(p) PROVE HandlesInv'
    <2> DEFINE left == IF p \in s_bus /\ attached[p] = 0 THEN buses \ {p} ELSE buses
    <2>1. transfer = {} /\ attached[p] = 0
        BY <1>1 DEF I2cInit
    <2>2. left = buses \ {p}
        BY <2>1
    <2>3. s_bus' = buses' /\ s_bus' \subseteq I2cPorts
        BY <1>1, <2>2 DEF I2cInit
    <2>4. transfer' = {} /\ attached' = attached
        BY <1>1, <2>1 DEF I2cInit
    <2> QED BY <1>0, <2>1, <2>3, <2>4 DEF spiVars, dacVars, adcVars
<1>2. ASSUME NEW p \in I2cPorts, I2cAttach(p) PROVE HandlesInv'
    BY <1>0, <1>2 DEF I2cAttach, spiVars, dacVars, adcVars
<1>3. ASSUME NEW p \in I2cPorts, NEW ok \in BOOLEAN, I2cTransfer(p, ok) PROVE HandlesInv'
    <2>1. transfer' = {} /\ attached' = [attached EXCEPT ![p] = attached[p] - 1] /\ UNCHANGED <<s_bus, buses>>
        BY <1>3 DEF I2cTransfer, Removes
    <2>2. p \in transfer /\ attached[p] = 1
        BY <1>3 DEF I2cTransfer
    <2>3. attached'[p] = 0 /\ attached' \in [I2cPorts -> Nat]
        BY <2>1, <2>2
    <2>4. \A q \in I2cPorts : attached'[q] = 0
        <3> SUFFICES ASSUME NEW q \in I2cPorts, q # p PROVE attached'[q] = 0
            BY <2>3
        <3>1. attached'[q] = attached[q]
            BY <2>1
        <3> QED BY <3>1, <1>3 DEF I2cTransfer
    <2> QED BY <1>0, <2>1, <2>3, <2>4 DEF spiVars, dacVars, adcVars
<1> QED BY <1>1, <1>2, <1>3 DEF I2c

LEMMA SpiStep ==
    ASSUME HandlesInv, Spi
    PROVE  HandlesInv'
<1> USE DEF HandlesInv, HandlesHold
<1>0. UNCHANGED <<i2cVars, pwmVars, dacVars, adcVars>>
    BY DEF Spi
<1>1. ASSUME NEW h \in SpiHosts, SpiBusFails(h) PROVE HandlesInv'
    BY <1>0, <1>1 DEF SpiBusFails, spiVars, i2cVars, dacVars, adcVars
<1>2. ASSUME NEW h \in SpiHosts, SpiInit(h) PROVE HandlesInv'
    <2> DEFINE rest == IF h \in s_dev THEN spi_devices[h] - 1 ELSE spi_devices[h]
    <2>1. rest = 0
        BY <1>2
    <2>2. \/ s_dev' = s_dev \cup {h} /\ spi_devices' = [spi_devices EXCEPT ![h] = 1]
          \/ s_dev' = s_dev \ {h} /\ spi_devices' = [spi_devices EXCEPT ![h] = 0]
        BY <1>2, <2>1 DEF SpiInit
    <2>3. s_bus_inited' = s_bus_inited \cup {h} /\ spi_buses' = spi_buses \cup {h}
        BY <1>2 DEF SpiInit
    <2>4. UNCHANGED <<s_bus, buses, attached, transfer, s_dac, dacs, s_h, s_ch_inited, adc_unit, adc_ready>>
        BY <1>0 DEF i2cVars, dacVars, adcVars
    <2> QED BY <2>2, <2>3, <2>4
<1> QED BY <1>1, <1>2 DEF Spi

LEMMA DriversStep == HandlesInv /\ [DriversNext]_driversVars => HandlesInv'
<1> SUFFICES ASSUME HandlesInv, [DriversNext]_driversVars PROVE HandlesInv'
    OBVIOUS
<1>1. CASE I2c
    BY <1>1, I2cStep
<1>2. CASE Spi
    BY <1>2, SpiStep
<1>3. CASE Pwm
    BY <1>3 DEF Pwm, HandlesInv, HandlesHold, i2cVars, spiVars, dacVars, adcVars
<1>4. ASSUME NEW c \in DacChannels, DacWrite(c) PROVE HandlesInv'
    BY <1>4 DEF DacWrite, HandlesInv, HandlesHold, i2cVars, spiVars, adcVars
<1>5. ASSUME NEW c \in AdcChannels, EnsureChannel(c) PROVE HandlesInv'
    BY <1>5 DEF EnsureChannel, HandlesInv, HandlesHold, i2cVars, spiVars, dacVars
<1>6. CASE UNCHANGED driversVars
    BY <1>6 DEF driversVars, HandlesInv, HandlesHold, i2cVars, spiVars, dacVars, adcVars
<1> QED BY <1>1, <1>2, <1>3, <1>4, <1>5, <1>6 DEF DriversNext

\* The inductive invariant of the handles (periph_i2c.c, periph_spi.c,
\* periph_dac.c, periph_adc.c).
THEOREM HandlesInvariance == DriversSpec => []HandlesInv
BY DriversInitial, DriversStep, PTL DEF DriversSpec

\* Whichever driver call fails, each table names what the driver really holds,
\* and no transfer leaves its device attached to the bus: a later I2C_INIT can
\* always delete the bus (periph_i2c.c 17-57, periph_spi.c 34-61).
THEOREM TablesHold == DriversSpec => []HandlesHold
<1>1. HandlesInv => HandlesHold
    BY DEF HandlesInv
<1> QED BY <1>1, HandlesInvariance, PTL

-----------------------------------------------------------------------------
(* The PWM channels.                                                       *)

\* What the timers and the channels have, and that those that are alone on their
\* timer really are.
PwmInv ==
    /\ s_ch \in [PwmChannels -> Resolutions \cup {0}]
    /\ timers \in [0..(LEDC_TIMER_MAX - 1) -> Resolutions \cup {0}]
    /\ duties \in [PwmChannels -> Nat]
    /\ settled \subseteq PwmChannels
    /\ DutiesFit
    /\ \A c, d \in settled : TimerOf(c) = TimerOf(d) => c = d

LEMMA DriversBounds ==
    /\ PwmChannels \subseteq Nat /\ LEDC_TIMER_MAX \in Nat \ {0} /\ Resolutions \subseteq 1..14
    /\ \A c \in PwmChannels : TimerOf(c) \in 0..(LEDC_TIMER_MAX - 1)
<1>1. /\ PwmChannels \subseteq Nat /\ LEDC_TIMER_MAX \in Nat \ {0} /\ Resolutions \subseteq 1..14
    BY DriversAssumption
<1>2. \A a \in Nat, b \in Nat \ {0} : a % b \in 0..(b - 1)
    OBVIOUS
<1> QED BY <1>1, <1>2 DEF TimerOf

\* There is a function that doubles along its domain.
LEMMA StepsExist ==
    \A n \in Nat : \E g : g = [r \in 0..n |-> IF r = 0 THEN 1 ELSE 2 * g[r - 1]]
<1> DEFINE D(g, n) == g = [r \in 0..n |-> IF r = 0 THEN 1 ELSE 2 * g[r - 1]]
           S == {n \in Nat : \E g : D(g, n)}
<1>1. 0 \in S
    <2> DEFINE g == [r \in 0..0 |-> 1]
    <2>1. g = [r \in 0..0 |-> IF r = 0 THEN 1 ELSE 2 * g[r - 1]]
        <3>1. \A r \in 0..0 : r = 0
            OBVIOUS
        <3> QED BY <3>1
    <2> QED BY <2>1
<1>2. ASSUME NEW n \in Nat, n \in S PROVE n + 1 \in S
    <2>1. PICK f : D(f, n)
        BY <1>2
    <2> DEFINE g == [r \in 0..(n + 1) |-> IF r = 0 THEN 1 ELSE 2 * f[r - 1]]
    <2>2. \A r \in 0..n : g[r] = f[r]
        BY <2>1
    <2>3. \A r \in 0..(n + 1) : r = 0 \/ r - 1 \in 0..n
        OBVIOUS
    <2>4. D(g, n + 1)
        <3>1. \A r \in 0..(n + 1) : r # 0 => f[r - 1] = g[r - 1]
            BY <2>2, <2>3
        <3> HIDE DEF D
        <3>2. g = [r \in 0..(n + 1) |-> IF r = 0 THEN 1 ELSE 2 * g[r - 1]]
            BY <3>1
        <3> QED BY <3>2 DEF D
    <2> HIDE DEF g
    <2>5. \E h : D(h, n + 1)
        <3> HIDE DEF D
        <3> QED BY <2>4
    <2>6. n + 1 \in Nat
        OBVIOUS
    <2> HIDE DEF D
    <2> QED BY <2>5, <2>6
<1>3. Nat \subseteq S
    <2> HIDE DEF S
    <2> QED BY <1>1, <1>2, SetInduction
<1> QED BY <1>3

LEMMA StepsIs == \A r \in 0..14 : Steps[r] = IF r = 0 THEN 1 ELSE 2 * Steps[r - 1]
<1> DEFINE D(g) == g = [r \in 0..14 |-> IF r = 0 THEN 1 ELSE 2 * g[r - 1]]
<1>1. \E g : D(g)
    BY StepsExist, 14 \in Nat
<1>2. D(CHOOSE g : D(g))
    BY <1>1, Zenon
<1>3. Steps = CHOOSE g : D(g)
    BY Zenon DEF Steps
<1>4. D(Steps)
    BY <1>2, <1>3, Zenon
<1> QED BY <1>4

LEMMA StepsPositive == \A r \in 0..14 : Steps[r] \in Nat \ {0}
<1> DEFINE S == {n \in Nat : n <= 14 => Steps[n] \in Nat \ {0}}
<1>1. 0 \in S
    BY StepsIs
<1>2. ASSUME NEW n \in Nat, n \in S PROVE n + 1 \in S
    <2>1. ASSUME n + 1 <= 14 PROVE Steps[n + 1] \in Nat \ {0}
        <3>1. Steps[n] \in Nat \ {0} /\ n + 1 \in 0..14 /\ (n + 1) - 1 = n /\ n + 1 # 0
            BY <1>2, <2>1
        <3>2. Steps[n + 1] = 2 * Steps[n]
            BY <3>1, StepsIs
        <3> QED BY <3>1, <3>2
    <2>2. n + 1 \in Nat
        OBVIOUS
    <2> QED BY <2>1, <2>2
<1>3. Nat \subseteq S
    <2> HIDE DEF S
    <2> QED BY <1>1, <1>2, SetInduction
<1> QED BY <1>3

LEMMA PwmInitial == DriversInit => PwmInv
<1> SUFFICES ASSUME DriversInit PROVE PwmInv
    OBVIOUS
<1>1. settled = {} /\ s_ch = [c \in PwmChannels |-> 0] /\ duties = [c \in PwmChannels |-> 0]
      /\ timers = [t \in 0..(LEDC_TIMER_MAX - 1) |-> 0]
    BY DEF DriversInit
<1> QED BY <1>1 DEF PwmInv, DutiesFit

LEMMA PwmInitStep ==
    ASSUME PwmInv, NEW c \in PwmChannels, NEW res \in Resolutions, PwmInit(c, res)
    PROVE  PwmInv'
<1> DEFINE sharing == {d \in PwmChannels : TimerOf(d) = TimerOf(c)}
<1>0. TimerOf(c) \in 0..(LEDC_TIMER_MAX - 1) /\ res \in 0..14
      /\ \A d \in PwmChannels : TimerOf(d) \in 0..(LEDC_TIMER_MAX - 1)
    BY DriversBounds
<1>1. timers' = [timers EXCEPT ![TimerOf(c)] = res]
    BY DEF PwmInit
<1>2. timers' \in [0..(LEDC_TIMER_MAX - 1) -> Resolutions \cup {0}] /\ timers'[TimerOf(c)] = res
    BY <1>0, <1>1 DEF PwmInv
<1>3. \A d \in PwmChannels : TimerOf(d) # TimerOf(c) => timers'[TimerOf(d)] = timers[TimerOf(d)]
    BY <1>0, <1>1 DEF PwmInv
<1>4. CASE s_ch' = [s_ch EXCEPT ![c] = res] /\ duties' = [duties EXCEPT ![c] = 0]
           /\ settled' = (settled \ sharing) \cup {c}
    <2>1. s_ch' \in [PwmChannels -> Resolutions \cup {0}] /\ duties' \in [PwmChannels -> Nat]
          /\ settled' \subseteq PwmChannels
        BY <1>4 DEF PwmInv
    <2>2. ASSUME NEW d \in settled' PROVE timers'[TimerOf(d)] = s_ch'[d] /\ duties'[d] < Steps[s_ch'[d]]
        <3>1. CASE d = c
            <4>1. s_ch'[c] = res /\ duties'[c] = 0
                BY <1>4 DEF PwmInv
            <4>2. Steps[res] \in Nat \ {0}
                BY <1>0, StepsPositive
            <4> QED BY <1>2, <3>1, <4>1, <4>2
        <3>2. CASE d # c
            <4>1. d \in settled /\ d \in PwmChannels /\ TimerOf(d) # TimerOf(c)
                BY <1>4, <3>2 DEF PwmInv
            <4>2. s_ch'[d] = s_ch[d] /\ duties'[d] = duties[d] /\ timers'[TimerOf(d)] = timers[TimerOf(d)]
                BY <1>3, <1>4, <3>2, <4>1 DEF PwmInv
            <4> QED BY <4>1, <4>2 DEF PwmInv, DutiesFit
        <3> QED BY <3>1, <3>2
    <2>3. \A d, e \in settled' : TimerOf(d) = TimerOf(e) => d = e
        BY <1>4 DEF PwmInv
    <2> QED BY <1>2, <2>1, <2>2, <2>3 DEF PwmInv, DutiesFit
<1>5. CASE settled' = settled \ sharing /\ UNCHANGED <<s_ch, duties>>
    <2>1. ASSUME NEW d \in settled' PROVE timers'[TimerOf(d)] = s_ch'[d] /\ duties'[d] < Steps[s_ch'[d]]
        <3>1. d \in settled /\ d \in PwmChannels /\ TimerOf(d) # TimerOf(c)
            BY <1>5 DEF PwmInv
        <3> QED BY <1>3, <1>5, <3>1 DEF PwmInv, DutiesFit
    <2> QED BY <1>2, <1>5, <2>1 DEF PwmInv, DutiesFit
<1> QED BY <1>4, <1>5 DEF PwmInit

LEMMA PwmSetStep ==
    ASSUME PwmInv, NEW c \in PwmChannels, NEW duty \in Nat, PwmSet(c, duty)
    PROVE  PwmInv'
<1> DEFINE max == Steps[s_ch[c]] - 1
           set == IF duty > max THEN max ELSE duty
<1>1. s_ch[c] \in 0..14
    <2>1. s_ch[c] \in Resolutions \cup {0}
        BY DEF PwmInv
    <2>2. \A r \in Resolutions : r \in 1..14
        BY DriversBounds
    <2> QED BY <2>1, <2>2
<1>2. Steps[s_ch[c]] \in Nat \ {0}
    BY <1>1, StepsPositive
<1>3. set \in Nat /\ set < Steps[s_ch[c]]
    BY <1>2
<1>4. duties' = [duties EXCEPT ![c] = set] /\ UNCHANGED <<s_ch, timers, settled>>
    BY DEF PwmSet
<1> HIDE DEF set
<1>5. duties' \in [PwmChannels -> Nat] /\ duties'[c] = set
      /\ \A d \in PwmChannels : d # c => duties'[d] = duties[d]
    BY <1>3, <1>4 DEF PwmInv
<1>6. \A d \in settled' : timers'[TimerOf(d)] = s_ch'[d] /\ duties'[d] < Steps[s_ch'[d]]
    BY <1>3, <1>4, <1>5 DEF PwmInv, DutiesFit
<1> QED BY <1>4, <1>5, <1>6 DEF PwmInv, DutiesFit

LEMMA PwmStep == PwmInv /\ [DriversNext]_driversVars => PwmInv'
<1> SUFFICES ASSUME PwmInv, [DriversNext]_driversVars PROVE PwmInv'
    OBVIOUS
<1>1. ASSUME NEW c \in PwmChannels, NEW res \in Resolutions, PwmInit(c, res) PROVE PwmInv'
    BY <1>1, PwmInitStep
<1>2. ASSUME NEW c \in PwmChannels, NEW duty \in Duties, PwmSet(c, duty) PROVE PwmInv'
    <2>1. duty \in Nat
        BY DEF Duties
    <2> QED BY <1>2, <2>1, PwmSetStep
<1>3. ASSUME NEW c \in PwmChannels, PwmStop(c) PROVE PwmInv'
    <2>1. s_ch' = [s_ch EXCEPT ![c] = 0] /\ settled' = settled \ {c} /\ UNCHANGED <<timers, duties>>
        BY <1>3 DEF PwmStop
    <2>2. \A d \in settled' : d \in settled /\ s_ch'[d] = s_ch[d]
        BY <2>1 DEF PwmInv
    <2> QED BY <2>1, <2>2 DEF PwmInv, DutiesFit
<1>4. CASE UNCHANGED pwmVars
    BY <1>4 DEF pwmVars, PwmInv, DutiesFit
<1>5. CASE I2c
    BY <1>4, <1>5 DEF I2c
<1>6. CASE Spi
    BY <1>4, <1>6 DEF Spi
<1>7. CASE (\E c \in DacChannels : DacWrite(c)) \/ \E c \in AdcChannels : EnsureChannel(c)
    BY <1>4, <1>7 DEF DacWrite, EnsureChannel
<1>8. CASE Pwm
    BY <1>1, <1>2, <1>3, <1>8 DEF Pwm
<1>9. CASE UNCHANGED driversVars
    BY <1>4, <1>9 DEF driversVars
<1> QED BY <1>5, <1>6, <1>7, <1>8, <1>9 DEF DriversNext

\* The inductive invariant of the PWM channels (periph_pwm.c 25-84).
THEOREM PwmInvariance == DriversSpec => []PwmInv
BY PwmInitial, PwmStep, PTL DEF DriversSpec

\* Every table names what its driver holds, and a PWM channel that shares its
\* timer with none has its resolution and a duty within it, whichever driver call
\* failed and whatever the other channels did (periph_pwm.c 29-66).
THEOREM DriversTablesMatch == DriversSpec => []TablesMatch
<1>1. PwmInv /\ HandlesHold => TablesMatch
    BY DEF PwmInv, TablesMatch
<1> QED BY <1>1, PwmInvariance, TablesHold, PTL

\* Types of the tables and of what the drivers have (periph_i2c.c 17,
\* periph_spi.c 26-27, periph_pwm.c 13-21).
THEOREM DriversTypeCorrect == DriversSpec => []DriversTypeOK
<1>1. PwmInv /\ HandlesInv => DriversTypeOK
    BY DEF PwmInv, HandlesInv, HandlesHold, DriversTypeOK
<1> QED BY <1>1, PwmInvariance, HandlesInvariance, PTL

-----------------------------------------------------------------------------
(* The log queue.                                                          *)

\* Where the lines are that the settings now refuse and that may still be sent.
RefusedInQueue == {i \in 1..Len(s_q) : ~Wanted(s_q[i])}

RefusedInTask ==
    {t \in Loggers :
        \/ logging[t].at = "queue" /\ ~Wanted(logging[t].line)
        \/ logging[t].at = "format" /\ s_stream /\ ~(logging[t].line <= s_level)}

RefusedInPump == IF pumped # NoLine /\ ~Wanted(pumped) THEN 1 ELSE 0

\* A refused line is sent once, or is still in one of the three places, and no
\* new one is made until the settings change again.
LinesInv ==
    /\ \A t \in Loggers : logging[t].at # "idle" => logging[t].line # NoLine
    /\ lateLines + Cardinality(RefusedInTask) + Cardinality(RefusedInQueue) + RefusedInPump
          <= LOGGER_QUEUE_LEN + 1 + Cardinality(Loggers)

LoggerInv == LoggerTypeOK /\ LinesInv

LEMMA LoggerBounds ==
    /\ IsFiniteSet(Loggers) /\ Cardinality(Loggers) \in Nat
    /\ LOGGER_QUEUE_LEN \in Nat
    /\ LOG_VERBOSE \in Nat /\ LOG_INFO \in 1..LOG_VERBOSE
BY LoggerAssumption, FS_CardinalityType

\* The tasks and the queue bound what is refused in them.
LEMMA AmongTasks ==
    ASSUME NEW S \in SUBSET Loggers
    PROVE  IsFiniteSet(S) /\ Cardinality(S) \in Nat /\ Cardinality(S) <= Cardinality(Loggers)
BY LoggerBounds, FS_Subset, FS_CardinalityType

LEMMA AmongPlaces ==
    ASSUME NEW n \in Nat, NEW S \in SUBSET (1..n)
    PROVE  IsFiniteSet(S) /\ Cardinality(S) \in Nat /\ Cardinality(S) <= n
<1>1. IsFiniteSet(1..n) /\ Cardinality(1..n) = n
    BY FS_Interval
<1> QED BY <1>1, FS_Subset, FS_CardinalityType

\* Places move up by one when the first line is taken.
LEMMA MovedUp ==
    ASSUME NEW n \in Nat, NEW S \in SUBSET (1..n), 1 \notin S,
           NEW T, T = {i \in 1..(n - 1) : i + 1 \in S}
    PROVE  Cardinality(T) <= Cardinality(S)
<1> DEFINE f == [i \in T |-> i + 1]
<1>1. f \in Injection(T, S)
    BY DEF Injection, IsInjective
<1>2. IsFiniteSet(S)
    BY AmongPlaces
<1> QED BY <1>1, <1>2, FS_Injection

LEMMA LoggerInitial == LoggerInit => LoggerInv
<1> SUFFICES ASSUME LoggerInit PROVE LoggerInv
    OBVIOUS
<1>1. LoggerTypeOK
    <2>1. s_level \in Levels /\ pumped \in Levels /\ lateLines \in Nat
        BY LoggerBounds DEF LoggerInit, Levels, NoLine
    <2>2. s_q = <<>> /\ <<>> \in Seq(Levels \ {0}) /\ Len(<<>>) <= LOGGER_QUEUE_LEN
        BY LoggerBounds DEF LoggerInit
    <2>3. Idle \in [at : {"idle", "format", "queue"}, line : Levels]
        BY LoggerBounds DEF Idle, NoLine, Levels
    <2>4. s_stream \in BOOLEAN /\ authed \in BOOLEAN /\ logging = [t \in Loggers |-> Idle]
        BY DEF LoggerInit
    <2> QED BY <2>1, <2>2, <2>3, <2>4 DEF LoggerTypeOK
<1>2. RefusedInTask = {} /\ RefusedInQueue = {} /\ RefusedInPump = 0 /\ lateLines = 0
    BY DEF LoggerInit, RefusedInTask, RefusedInQueue, RefusedInPump, Idle
<1>3. Cardinality(RefusedInTask) = 0 /\ Cardinality(RefusedInQueue) = 0
    BY <1>2, FS_EmptySet
<1>4. LinesInv
    BY <1>2, <1>3, LoggerBounds DEF LoggerInit, LinesInv, Idle
<1> QED BY <1>1, <1>4 DEF LoggerInv

\* The settings change: nothing late has been sent yet, and there is room for
\* one refused line in each place.
LEMMA SettingsStep ==
    ASSUME LoggerInv, lateLines' = 0, s_level' \in Levels, s_stream' \in BOOLEAN,
           UNCHANGED <<s_q, logging, pumped, authed>>
    PROVE  LoggerInv'
<1> USE DEF LoggerInv
<1>1. LoggerTypeOK'
    BY DEF LoggerTypeOK
<1>2. /\ Cardinality(RefusedInTask') \in Nat
      /\ Cardinality(RefusedInTask') <= Cardinality(Loggers)
    BY AmongTasks DEF RefusedInTask
<1>3. /\ Cardinality(RefusedInQueue') \in Nat
      /\ Cardinality(RefusedInQueue') <= LOGGER_QUEUE_LEN
    <2>1. Len(s_q) \in Nat /\ Len(s_q) <= LOGGER_QUEUE_LEN
        BY LenProperties DEF LoggerTypeOK
    <2>2. RefusedInQueue' \in SUBSET (1..Len(s_q))
        BY DEF RefusedInQueue
    <2> QED BY <2>1, <2>2, AmongPlaces, LoggerBounds
<1>4. RefusedInPump' \in {0, 1}
    BY DEF RefusedInPump
<1>5. LinesInv'
    BY <1>2, <1>3, <1>4, LoggerBounds DEF LinesInv
<1> QED BY <1>1, <1>5

\* A task that tests a setting makes no line late.
LEMMA LoggerTestStep ==
    ASSUME LoggerInv, NEW t \in Loggers,
           (\E l \in Levels : PassLevel(t, l)) \/ TestStream(t)
    PROVE  LoggerInv'
<1> USE DEF LoggerInv
<1>1. /\ UNCHANGED <<s_level, s_stream, s_q, pumped, authed, lateLines>>
      /\ logging[t] \in [at : {"idle", "format", "queue"}, line : Levels]
    BY DEF PassLevel, TestStream, settings, LoggerTypeOK
<1>2. PICK m \in [at : {"idle", "format", "queue"}, line : Levels] :
            /\ logging' = [logging EXCEPT ![t] = m]
            /\ m.at # "idle" => m.line # NoLine
            /\ m.at = "queue" => /\ logging[t].at = "format" /\ m.line = logging[t].line
                                 /\ s_stream
            /\ m.at = "format" => m.line <= s_level
    <2>1. CASE TestStream(t) /\ s_stream
        <3>1. logging' = [logging EXCEPT ![t] = [logging[t] EXCEPT !.at = "queue"]]
            BY <2>1 DEF TestStream, StreamSays
        <3>2. logging[t].line # NoLine /\ logging[t].at = "format"
            BY <2>1 DEF TestStream, LinesInv
        <3>3. [logging[t] EXCEPT !.at = "queue"] = [at |-> "queue", line |-> logging[t].line]
            BY <1>1
        <3> DEFINE m == [at |-> "queue", line |-> logging[t].line]
        <3>4. m \in [at : {"idle", "format", "queue"}, line : Levels]
            BY <1>1
        <3>5. m.at = "queue" /\ m.line = logging[t].line
            OBVIOUS
        <3>6. logging' = [logging EXCEPT ![t] = m]
            BY <3>1, <3>3
        <3> HIDE DEF m
        <3> QED BY <2>1, <3>2, <3>4, <3>5, <3>6
    <2>2. CASE TestStream(t) /\ ~s_stream
        <3>1. logging' = [logging EXCEPT ![t] = Idle]
            BY <2>2 DEF TestStream, StreamSays
        <3>2. Idle \in [at : {"idle", "format", "queue"}, line : Levels]
            BY LoggerBounds DEF Idle, NoLine, Levels
        <3> QED BY <3>1, <3>2 DEF Idle
    <2>3. CASE \E l \in Levels : PassLevel(t, l)
        <3>1. PICK l \in Levels : PassLevel(t, l)
            BY <2>3
        <3> DEFINE m == [at |-> "format", line |-> l]
        <3>2. m \in [at : {"idle", "format", "queue"}, line : Levels]
            OBVIOUS
        <3>3. m.at = "format" /\ m.line = l
            OBVIOUS
        <3>4. logging' = [logging EXCEPT ![t] = m] /\ l # NoLine /\ l <= s_level
            BY <3>1 DEF PassLevel, NoLine
        <3> HIDE DEF m
        <3> QED BY <3>2, <3>3, <3>4
    <2> QED BY <2>1, <2>2, <2>3
<1>3. LoggerTypeOK'
    BY <1>1, <1>2 DEF LoggerTypeOK
<1>4. \A u \in Loggers : logging'[u] = IF u = t THEN m ELSE logging[u]
    BY <1>2 DEF LoggerTypeOK
<1>5. RefusedInTask' \in SUBSET RefusedInTask
    BY <1>1, <1>2, <1>4 DEF RefusedInTask, Wanted, NoLine
<1>6. /\ Cardinality(RefusedInTask') <= Cardinality(RefusedInTask)
      /\ Cardinality(RefusedInTask') \in Nat /\ Cardinality(RefusedInTask) \in Nat
    <2>1. RefusedInTask \in SUBSET Loggers
        BY DEF RefusedInTask
    <2>2. RefusedInTask' \in SUBSET Loggers
        BY <1>5, <2>1
    <2> QED BY <1>5, <2>1, <2>2, AmongTasks, FS_Subset
<1>7. RefusedInQueue' = RefusedInQueue /\ RefusedInPump' = RefusedInPump
    BY <1>1 DEF RefusedInQueue, RefusedInPump, Wanted
<1>8. Cardinality(RefusedInQueue) \in Nat /\ RefusedInPump \in Nat
    <2>1. Len(s_q) \in Nat /\ RefusedInQueue \in SUBSET (1..Len(s_q))
        BY LenProperties DEF LoggerTypeOK, RefusedInQueue
    <2> QED BY <2>1, AmongPlaces DEF RefusedInPump
<1>9. lateLines' = lateLines /\ lateLines \in Nat
    BY <1>1 DEF LoggerTypeOK
<1>10. LinesInv'
    <2>1. \A u \in Loggers : logging'[u].at # "idle" => logging'[u].line # NoLine
        BY <1>2, <1>4 DEF LinesInv
    <2> QED BY <1>6, <1>7, <1>8, <1>9, <2>1, LoggerBounds DEF LinesInv
<1> QED BY <1>3, <1>10

\* A refused line moves from its task to the queue, or is dropped.
LEMMA QueueLineStep ==
    ASSUME LoggerInv, NEW t \in Loggers, QueueLine(t)
    PROVE  LoggerInv'
<1> USE DEF LoggerInv
<1> DEFINE n == Len(s_q)
           x == logging[t].line
<1>1. /\ logging[t].at = "queue" /\ logging' = [logging EXCEPT ![t] = Idle]
      /\ s_q' = IF n < LOGGER_QUEUE_LEN THEN Append(s_q, x) ELSE s_q
      /\ UNCHANGED <<s_level, s_stream, pumped, authed, lateLines>>
    BY DEF QueueLine, settings
<1>2. x \in Levels \ {0} /\ s_q \in Seq(Levels \ {0}) /\ n \in Nat
    BY <1>1, LenProperties DEF LinesInv, LoggerTypeOK, NoLine
<1>3. LoggerTypeOK'
    <2>1. s_q' \in Seq(Levels \ {0}) /\ Len(s_q') <= LOGGER_QUEUE_LEN
        <3>1. CASE n < LOGGER_QUEUE_LEN
            BY <1>1, <1>2, <3>1, AppendProperties, LoggerBounds
        <3>2. CASE ~(n < LOGGER_QUEUE_LEN)
            BY <1>1, <1>2, <3>2 DEF LoggerTypeOK
        <3> QED BY <3>1, <3>2
    <2>2. Idle \in [at : {"idle", "format", "queue"}, line : Levels]
        BY LoggerBounds DEF Idle, NoLine, Levels
    <2> QED BY <1>1, <2>1, <2>2 DEF LoggerTypeOK
<1>4. \A u \in Loggers : logging'[u] = IF u = t THEN Idle ELSE logging[u]
    BY <1>1 DEF LoggerTypeOK
<1>5. RefusedInTask' = RefusedInTask \ {t} /\ (t \in RefusedInTask <=> ~Wanted(x))
    BY <1>1, <1>4 DEF RefusedInTask, Wanted, Idle
<1>6. RefusedInQueue' = IF n < LOGGER_QUEUE_LEN /\ ~Wanted(x)
                        THEN RefusedInQueue \cup {n + 1} ELSE RefusedInQueue
    <2>1. CASE n < LOGGER_QUEUE_LEN
        <3>1. /\ Len(s_q') = n + 1 /\ s_q'[n + 1] = x
              /\ \A i \in 1..n : s_q'[i] = s_q[i]
            BY <1>1, <1>2, <2>1, AppendProperties
        <3>2. \A y : Wanted(y)' <=> Wanted(y)
            BY <1>1 DEF Wanted
        <3>3. 1..(n + 1) = (1..n) \cup {n + 1}
            BY <1>2
        <3> QED BY <1>2, <2>1, <3>1, <3>2, <3>3 DEF RefusedInQueue
    <2>2. CASE ~(n < LOGGER_QUEUE_LEN)
        BY <1>1, <2>2 DEF RefusedInQueue, Wanted
    <2> QED BY <2>1, <2>2
<1>7. /\ IsFiniteSet(RefusedInTask) /\ Cardinality(RefusedInTask) \in Nat
      /\ IsFiniteSet(RefusedInQueue) /\ Cardinality(RefusedInQueue) \in Nat
      /\ n + 1 \notin RefusedInQueue
    <2>1. RefusedInTask \in SUBSET Loggers /\ RefusedInQueue \in SUBSET (1..n)
        BY DEF RefusedInTask, RefusedInQueue
    <2>2. n + 1 \notin 1..n
        BY <1>2
    <2>3. IsFiniteSet(RefusedInTask) /\ Cardinality(RefusedInTask) \in Nat
        BY <2>1, AmongTasks
    <2>4. IsFiniteSet(RefusedInQueue) /\ Cardinality(RefusedInQueue) \in Nat
        BY <1>2, <2>1, AmongPlaces
    <2> QED BY <2>1, <2>2, <2>3, <2>4
<1>8. Cardinality(RefusedInTask') = IF Wanted(x) THEN Cardinality(RefusedInTask)
                                    ELSE Cardinality(RefusedInTask) - 1
    BY <1>5, <1>7, FS_RemoveElement
<1>9. Cardinality(RefusedInQueue') = IF n < LOGGER_QUEUE_LEN /\ ~Wanted(x)
                                     THEN Cardinality(RefusedInQueue) + 1
                                     ELSE Cardinality(RefusedInQueue)
    BY <1>6, <1>7, FS_AddElement
<1>10. RefusedInPump' = RefusedInPump /\ RefusedInPump \in Nat /\ lateLines' = lateLines /\ lateLines \in Nat
    BY <1>1 DEF RefusedInPump, Wanted, LoggerTypeOK
<1>11. LinesInv'
    <2>1. \A u \in Loggers : logging'[u].at # "idle" => logging'[u].line # NoLine
        BY <1>4 DEF LinesInv, Idle
    <2>2. /\ Cardinality(RefusedInTask') \in Int /\ Cardinality(RefusedInQueue') \in Int
          /\ Cardinality(RefusedInTask') + Cardinality(RefusedInQueue')
                <= Cardinality(RefusedInTask) + Cardinality(RefusedInQueue)
        BY <1>7, <1>8, <1>9
    <2>3. lateLines + Cardinality(RefusedInTask) + Cardinality(RefusedInQueue) + RefusedInPump
              <= LOGGER_QUEUE_LEN + 1 + Cardinality(Loggers)
        BY DEF LinesInv
    <2>4. lateLines' + Cardinality(RefusedInTask') + Cardinality(RefusedInQueue') + RefusedInPump'
              <= LOGGER_QUEUE_LEN + 1 + Cardinality(Loggers)
        <3> DEFINE task == Cardinality(RefusedInTask)
                   queue == Cardinality(RefusedInQueue)
                   newTask == Cardinality(RefusedInTask')
                   newQueue == Cardinality(RefusedInQueue')
                   others == Cardinality(Loggers)
        <3>1. /\ task \in Int /\ queue \in Int /\ newTask \in Int /\ newQueue \in Int /\ others \in Int
              /\ newTask + newQueue <= task + queue
              /\ lateLines + task + queue + RefusedInPump <= LOGGER_QUEUE_LEN + 1 + others
            BY <1>7, <2>2, <2>3, LoggerBounds
        <3> HIDE DEF task, queue, newTask, newQueue, others
        <3>2. lateLines + newTask + newQueue + RefusedInPump <= LOGGER_QUEUE_LEN + 1 + others
            BY <1>10, <3>1, LoggerBounds
        <3> QED BY <1>10, <3>2 DEF task, queue, newTask, newQueue, others
    <2> QED BY <2>1, <2>4 DEF LinesInv
<1> QED BY <1>3, <1>11

\* A refused line moves from the head of the queue to the pump.
LEMMA DrainStep ==
    ASSUME LoggerInv, Drain
    PROVE  LoggerInv'
<1> USE DEF LoggerInv
<1> DEFINE n == Len(s_q)
           x == s_q[1]
<1>1. /\ pumped = NoLine /\ s_q # <<>> /\ pumped' = x /\ s_q' = Tail(s_q)
      /\ UNCHANGED <<s_level, s_stream, logging, authed, lateLines>>
    <2>1. Head(s_q) = x
        OBVIOUS
    <2> QED BY <2>1 DEF Drain, settings
<1>2. /\ n \in Nat /\ 1 \in 1..n /\ s_q' \in Seq(Levels \ {0}) /\ Len(s_q') = n - 1
      /\ \A i \in 1..Len(s_q') : s_q'[i] = s_q[i + 1]
      /\ x \in Levels \ {0}
    <2>1. s_q \in Seq(Levels \ {0}) /\ n \in Nat
        BY LenProperties DEF LoggerTypeOK
    <2> QED BY <1>1, <2>1, HeadTailProperties
<1>3. LoggerTypeOK'
    <2>1. Len(s_q') <= LOGGER_QUEUE_LEN
        BY <1>2, LoggerBounds DEF LoggerTypeOK
    <2> QED BY <1>1, <1>2, <2>1 DEF LoggerTypeOK
<1>4. RefusedInTask' = RefusedInTask
    BY <1>1 DEF RefusedInTask, Wanted
<1>5. /\ RefusedInQueue \in SUBSET (1..n)
      /\ RefusedInQueue' = {i \in 1..(n - 1) : i + 1 \in RefusedInQueue \ {1}}
    BY <1>1, <1>2 DEF RefusedInQueue, Wanted
<1>6. Cardinality(RefusedInQueue') <= Cardinality(RefusedInQueue \ {1})
    BY <1>2, <1>5, MovedUp
<1>7. /\ IsFiniteSet(RefusedInQueue) /\ Cardinality(RefusedInQueue) \in Nat
      /\ Cardinality(RefusedInQueue') \in Nat /\ Cardinality(RefusedInTask) \in Nat
    <2>1. n - 1 \in Nat /\ RefusedInQueue' \in SUBSET (1..(n - 1))
        BY <1>2, <1>5
    <2>2. RefusedInTask \in SUBSET Loggers
        BY DEF RefusedInTask
    <2> QED BY <1>2, <1>5, <2>1, <2>2, AmongPlaces, AmongTasks
<1>8. Cardinality(RefusedInQueue \ {1}) = IF Wanted(x) THEN Cardinality(RefusedInQueue)
                                          ELSE Cardinality(RefusedInQueue) - 1
    <2>1. 1 \in RefusedInQueue <=> ~Wanted(x)
        BY <1>2 DEF RefusedInQueue
    <2> QED BY <1>7, <2>1, FS_RemoveElement
<1>9. RefusedInPump = 0 /\ RefusedInPump' = IF Wanted(x) THEN 0 ELSE 1
    BY <1>1, <1>2 DEF RefusedInPump, Wanted, NoLine
<1>10. lateLines' = lateLines /\ lateLines \in Nat
    BY <1>1 DEF LoggerTypeOK
<1>11. LinesInv'
    <2>1. \A u \in Loggers : logging'[u].at # "idle" => logging'[u].line # NoLine
        BY <1>1 DEF LinesInv
    <2>2. Cardinality(RefusedInQueue') + RefusedInPump'
             <= Cardinality(RefusedInQueue) + RefusedInPump
        BY <1>6, <1>7, <1>8, <1>9
    <2>3. RefusedInPump \in Nat /\ RefusedInPump' \in Nat
        BY <1>9
    <2> QED BY <1>4, <1>7, <1>10, <2>1, <2>2, <2>3, LoggerBounds DEF LinesInv
<1> QED BY <1>3, <1>11

\* A refused line leaves the pump, and is late if a client is there.
LEMMA ShipStep ==
    ASSUME LoggerInv, Ship
    PROVE  LoggerInv'
<1> USE DEF LoggerInv
<1>1. /\ pumped # NoLine /\ pumped' = NoLine
      /\ lateLines' = IF authed /\ ~Wanted(pumped) THEN lateLines + 1 ELSE lateLines
      /\ UNCHANGED <<s_level, s_stream, s_q, logging, authed>>
    BY DEF Ship, settings
<1>2. LoggerTypeOK'
    BY <1>1, LoggerBounds DEF LoggerTypeOK, NoLine, Levels
<1>3. RefusedInTask' = RefusedInTask /\ RefusedInQueue' = RefusedInQueue
    BY <1>1 DEF RefusedInTask, RefusedInQueue, Wanted
<1>4. Cardinality(RefusedInTask) \in Nat /\ Cardinality(RefusedInQueue) \in Nat
    <2>1. RefusedInTask \in SUBSET Loggers /\ RefusedInQueue \in SUBSET (1..Len(s_q)) /\ Len(s_q) \in Nat
        BY LenProperties DEF RefusedInTask, RefusedInQueue, LoggerTypeOK
    <2> QED BY <2>1, AmongTasks, AmongPlaces
<1>5. lateLines' + RefusedInPump' <= lateLines + RefusedInPump
    BY <1>1 DEF RefusedInPump, LoggerTypeOK
<1>6. lateLines \in Nat /\ lateLines' \in Nat /\ RefusedInPump \in Nat /\ RefusedInPump' \in Nat
    BY <1>1 DEF LoggerTypeOK, RefusedInPump
<1>7. \A u \in Loggers : logging'[u].at # "idle" => logging'[u].line # NoLine
    BY <1>1 DEF LinesInv
<1>8. LinesInv'
    <2>1. lateLines + Cardinality(RefusedInTask) + Cardinality(RefusedInQueue) + RefusedInPump
             <= LOGGER_QUEUE_LEN + 1 + Cardinality(Loggers)
        BY DEF LinesInv
    <2>2. lateLines' + Cardinality(RefusedInTask) + Cardinality(RefusedInQueue) + RefusedInPump'
             <= LOGGER_QUEUE_LEN + 1 + Cardinality(Loggers)
        <3>1. LOGGER_QUEUE_LEN + 1 + Cardinality(Loggers) \in Nat
            BY LoggerBounds
        <3>2. \A a, b, c, d, e, f, g \in Nat :
                 a + b + c + d <= e /\ f + g <= a + d => f + b + c + g <= e
            OBVIOUS
        <3> QED BY <1>4, <1>5, <1>6, <2>1, <3>1, <3>2
    <2> QED BY <1>3, <1>7, <2>2 DEF LinesInv
<1> QED BY <1>2, <1>8

LEMMA LoggerStep == LoggerInv /\ [LoggerNext]_loggerVars => LoggerInv'
<1> SUFFICES ASSUME LoggerInv, [LoggerNext]_loggerVars PROVE LoggerInv'
    OBVIOUS
<1>1. ASSUME NEW l \in Levels, SetLogLevel(l) PROVE LoggerInv'
    <2>1. s_stream \in BOOLEAN
        BY DEF LoggerInv, LoggerTypeOK
    <2> QED BY <1>1, <2>1, SettingsStep DEF SetLogLevel
<1>2. ASSUME NEW on \in BOOLEAN, SetLogStream(on) PROVE LoggerInv'
    <2>1. s_level \in Levels
        BY DEF LoggerInv, LoggerTypeOK
    <2> QED BY <1>2, <2>1, SettingsStep DEF SetLogStream
<1>3. ASSUME NEW t \in Loggers, (\E l \in Levels : PassLevel(t, l)) \/ TestStream(t)
      PROVE  LoggerInv'
    BY <1>3, LoggerTestStep
<1>4. ASSUME NEW t \in Loggers, QueueLine(t) PROVE LoggerInv'
    BY <1>4, QueueLineStep
<1>5. CASE Drain
    BY <1>5, DrainStep
<1>6. CASE Ship
    BY <1>6, ShipStep
<1>7. CASE ClientComesOrGoes \/ UNCHANGED loggerVars
    <2>1. UNCHANGED <<s_level, s_stream, s_q, logging, pumped, lateLines>> /\ authed' \in BOOLEAN
        BY <1>7 DEF ClientComesOrGoes, loggerVars, settings, LoggerInv, LoggerTypeOK
    <2>2. LoggerTypeOK'
        BY <2>1 DEF LoggerInv, LoggerTypeOK
    <2>3. LinesInv'
        BY <2>1 DEF LoggerInv, LinesInv, RefusedInTask, RefusedInQueue, RefusedInPump, Wanted
    <2> QED BY <2>2, <2>3 DEF LoggerInv
<1> QED BY <1>1, <1>2, <1>3, <1>4, <1>5, <1>6, <1>7 DEF LoggerNext

\* The inductive invariant of the log queue: where the refused lines are
\* (logger.c 40-90).
THEOREM LoggerInvariance == LoggerSpec => []LoggerInv
BY LoggerInitial, LoggerStep, PTL DEF LoggerSpec

\* The queue keeps to its length and holds printable levels only (logger.c 14-21).
THEOREM LoggerTypeCorrect == LoggerSpec => []LoggerTypeOK
<1>1. LoggerInv => LoggerTypeOK
    BY DEF LoggerInv
<1> QED BY <1>1, LoggerInvariance, PTL

\* However many tasks log, and however long the queue, a LOG_LEVEL or LOG_STREAM
\* is followed by no more lines it refuses than there are places for a line
\* between logger_log's tests and the pump's send (logger.c 48, 70-72, net.c 507-508).
THEOREM FewLateLines == LoggerSpec => []LateLines
<1>1. LoggerInv => LateLines
    <2> SUFFICES ASSUME LoggerInv PROVE LateLines
        OBVIOUS
    <2>1. RefusedInTask \in SUBSET Loggers /\ RefusedInQueue \in SUBSET (1..Len(s_q)) /\ Len(s_q) \in Nat
        BY LenProperties DEF RefusedInTask, RefusedInQueue, LoggerInv, LoggerTypeOK
    <2>2. Cardinality(RefusedInTask) \in Nat /\ Cardinality(RefusedInQueue) \in Nat
        BY <2>1, AmongTasks, AmongPlaces
    <2>3. RefusedInPump \in Nat /\ lateLines \in Nat
        BY DEF RefusedInPump, LoggerInv, LoggerTypeOK
    <2> QED BY <2>2, <2>3, LoggerBounds DEF LoggerInv, LinesInv, LateLines
<1> QED BY <1>1, LoggerInvariance, PTL
-----------------------------------------------------------------------------
(* The parts together: each of them, in MCDeviceParts, behaves as its own  *)
(* specification says, so what is proved of it holds of the composition.   *)

\* The focus takes a step of its part, and every other part stutters.
LEMMA PartsStep ==
    [PartsNext]_partsVars =>
        /\ [Next]_vars
        /\ [GpioNext]_gpioVars
        /\ [LoggerNext]_loggerVars
        /\ [ListenerNext]_listenerVars
        /\ [DispatchNext]_dispatchVars
        /\ [DriversNext]_driversVars
        /\ [FsNext]_fsVars
        /\ [DiscoveryNext]_discoveryVars
<1>1. CASE StreamsPart
    BY <1>1 DEF StreamsPart, Only
<1>2. CASE GpioPart
    BY <1>2 DEF GpioPart, Only
<1>3. CASE LoggerPart
    BY <1>3 DEF LoggerPart, Only
<1>4. CASE ListenerPart
    BY <1>4 DEF ListenerPart, Only
<1>5. CASE DispatchPart
    BY <1>5 DEF DispatchPart, Only
<1>6. CASE DriversPart
    BY <1>6 DEF DriversPart, Only
<1>7. CASE FsPart
    BY <1>7 DEF FsPart, Only
<1>8. CASE DiscoveryPart
    BY <1>8 DEF DiscoveryPart, Only
<1>9. CASE UNCHANGED partsVars
    BY <1>9 DEF partsVars
<1> QED BY <1>1, <1>2, <1>3, <1>4, <1>5, <1>6, <1>7, <1>8, <1>9 DEF PartsNext

\* Seen from one part the composition is that part's own specification: none of
\* the others can change what it keeps (each file of components/core/src has its
\* own static tables).
THEOREM EachPartRuns ==
    PartsSpec =>
        /\ Spec /\ GpioSpec /\ LoggerSpec /\ ListenerSpec
        /\ DispatchSpec /\ DriversSpec /\ FsSpec /\ DiscoverySpec
<1>1. PartsInit =>
          /\ Init /\ GpioInit /\ LoggerInit /\ ListenerInit
          /\ DispatchInit /\ DriversInit /\ FsInit /\ DiscoveryInit
    BY DEF PartsInit
<1> QED BY <1>1, PartsStep, PTL
        DEF PartsSpec, Spec, GpioSpec, LoggerSpec, ListenerSpec, DispatchSpec, DriversSpec,
            FsSpec, DiscoverySpec

\* Every table of the device, and every list of esp-ctl's discovery, keeps its
\* type and its bounds: see the type invariant of each part.
THEOREM PartsTypesCorrect == PartsSpec => []TypesOK
<1>1. /\ TypeOK /\ GpioTypeOK /\ LoggerTypeOK /\ ListenerTypeOK
      /\ DispatchTypeOK /\ DriversTypeOK /\ FsTypeOK /\ DiscoveryTypeOK
      => TypesOK
    BY DEF TypesOK
<1> QED BY <1>1, EachPartRuns, TypeCorrect, GpioTypeCorrect, LoggerTypeCorrect,
        ListenerTypeCorrect, DispatchTypeCorrect, DriversTypeCorrect, FsTypeCorrect,
        DiscoveryTypeCorrect, PTL

\* What the commands recorded of a peripheral is what its driver has, whichever
\* driver call failed and whatever command came next: see WatchTableHolds and
\* DriversTablesMatch for the code.
THEOREM PartsTablesAgree == PartsSpec => []TablesAgree
<1>1. WatchTableAgrees /\ TablesMatch => TablesAgree
    BY DEF TablesAgree
<1> QED BY <1>1, EachPartRuns, WatchTableHolds, DriversTablesMatch, PTL

\* After a stream is stopped, or the log settings changed, no more arrives than
\* what was already under way: see StopIsPrompt and FewLateLines for the code.
THEOREM PartsLateEvents == PartsSpec => []LateEvents
<1>1. OneLateEvent /\ LateLines => LateEvents
    BY DEF LateEvents
<1> QED BY <1>1, EachPartRuns, StopIsPrompt, FewLateLines, PTL

\* The other invariants of the parts, of the composition: a channel has one task
\* at most and a start that was answered holds, a client knows the level of the
\* pin it watches, a reply is its own command's, a file is one write's, and a
\* device that was listed can be loaded.
THEOREM PartsInvariants ==
    PartsSpec => [](/\ OneTaskEach /\ StartHolds /\ LastEventCurrent
                    /\ ReplyIsOwn /\ OneWriteEach /\ ListedCanBeLoaded)
BY EachPartRuns, AtMostOneTask, StartIsKept, LastEventIsLevel, DispatchReplies,
   NoMixedFile, ListedDevicesLoad, PTL
===============================================================================
