------------------------------- MODULE Drivers -------------------------------
(***************************************************************************)
(* The tables that the I2C, SPI, PWM, DAC and ADC commands keep of what    *)
(* they made the drivers do (periph_i2c.c, periph_spi.c, periph_pwm.c,     *)
(* periph_dac.c, periph_adc.c).  A command makes several driver calls, any *)
(* of which may fail after the others took effect.                         *)
(*                                                                         *)
(* Only the server task runs these commands, one after the other: a        *)
(* command is a step, except an I2C transfer, whose device is attached in  *)
(* between.  A driver object is there or not: which one a handle names     *)
(* does not matter, a table has room for one.                              *)
(***************************************************************************)
EXTENDS Naturals, FiniteSets

CONSTANTS
    I2cPorts, SpiHosts, DacChannels, AdcChannels,
    PwmChannels,     \* channel numbers
    LEDC_TIMER_MAX,
    Resolutions      \* resolutions PWM_INIT is given, in bits; it refuses others than 1 to 14

ASSUME DriversAssumption ==
    /\ PwmChannels \subseteq Nat
    /\ LEDC_TIMER_MAX \in Nat \ {0}
    /\ Resolutions \subseteq 1..14

VARIABLES
    s_bus,        \* ports with a bus handle
    buses,        \* driver: ports with a bus
    attached,     \* driver: how many devices each bus has
    transfer,     \* the port of the transfer under way, as a set
    s_bus_inited, s_dev,
    spi_buses,    \* driver: initialised hosts
    spi_devices,  \* driver: how many devices each has
    s_ch,         \* the resolution recorded for each channel, 0 when unused
    timers,       \* driver: the resolution of each timer, 0 when never set
    duties,       \* driver: the duty of each channel
    settled,      \* history: channels whose timer only they set since they were
    s_dac,
    dacs,         \* driver: channels taken
    s_h, s_ch_inited,
    adc_unit,     \* driver: the unit is taken
    adc_ready     \* driver: configured channels

i2cVars     == <<s_bus, buses, attached, transfer>>
spiVars     == <<s_bus_inited, s_dev, spi_buses, spi_devices>>
pwmVars     == <<s_ch, timers, duties, settled>>
dacVars     == <<s_dac, dacs>>
adcVars     == <<s_h, s_ch_inited, adc_unit, adc_ready>>
driversVars == <<i2cVars, spiVars, pwmVars, dacVars, adcVars>>

DriversInit ==
    /\ s_bus = {} /\ buses = {} /\ transfer = {}
    /\ attached = [p \in I2cPorts |-> 0]
    /\ s_bus_inited = {} /\ s_dev = {} /\ spi_buses = {}
    /\ spi_devices = [h \in SpiHosts |-> 0]
    /\ s_ch = [c \in PwmChannels |-> 0]
    /\ timers = [t \in 0..(LEDC_TIMER_MAX - 1) |-> 0]
    /\ duties = [c \in PwmChannels |-> 0]
    /\ settled = {}
    /\ s_dac = {} /\ dacs = {}
    /\ s_h = FALSE /\ s_ch_inited = {} /\ adc_unit = FALSE /\ adc_ready = {}

-----------------------------------------------------------------------------
(* Faults: what a definition below would be with a plausible slip in it.   *)

LeaveOnError(ok) == IF ok THEN 1 ELSE 0

-----------------------------------------------------------------------------
(* I2C.  A bus with a device attached cannot be deleted, and the result of *)
(* the deletion is not looked at.                                          *)

I2cInit(p) ==
    LET left == IF p \in s_bus /\ attached[p] = 0 THEN buses \ {p} ELSE buses IN
    /\ transfer = {}
    /\ \/ p \notin left /\ buses' = left \cup {p} /\ s_bus' = s_bus \cup {p}
       \/ buses' = left /\ s_bus' = s_bus \ {p}
    /\ UNCHANGED <<attached, transfer>>

\* I2C_READ and I2C_WRITE; i2c_master_bus_add_device may fail, which ends it.
I2cAttach(p) ==
    /\ transfer = {}
    /\ p \in s_bus
    /\ transfer' = {p}
    /\ attached' = [attached EXCEPT ![p] = @ + 1]
    /\ UNCHANGED <<s_bus, buses>>

\* The device is removed whether the transfer worked or not.
Removes(ok) == 1

I2cTransfer(p, ok) ==
    /\ p \in transfer
    /\ transfer' = {}
    /\ attached' = [attached EXCEPT ![p] = @ - Removes(ok)]
    /\ UNCHANGED <<s_bus, buses>>

I2c ==
    /\ \E p \in I2cPorts : I2cInit(p) \/ I2cAttach(p) \/ (\E ok \in BOOLEAN : I2cTransfer(p, ok))
    /\ UNCHANGED <<spiVars, pwmVars, dacVars, adcVars>>

-----------------------------------------------------------------------------
(* SPI.  A bus stays initialised for good; a device is replaced.           *)

SpiBusFails(h) ==
    /\ h \notin s_bus_inited
    /\ UNCHANGED spiVars

SpiInit(h) ==
    LET rest == IF h \in s_dev THEN spi_devices[h] - 1 ELSE spi_devices[h] IN
    /\ h \in s_bus_inited \/ h \notin spi_buses
    /\ s_bus_inited' = s_bus_inited \cup {h}
    /\ spi_buses' = spi_buses \cup {h}
    /\ \/ s_dev' = s_dev \cup {h} /\ spi_devices' = [spi_devices EXCEPT ![h] = rest + 1]
       \/ s_dev' = s_dev \ {h} /\ spi_devices' = [spi_devices EXCEPT ![h] = rest]

Spi ==
    /\ \E h \in SpiHosts : SpiBusFails(h) \/ SpiInit(h)
    /\ UNCHANGED <<i2cVars, pwmVars, dacVars, adcVars>>

-----------------------------------------------------------------------------
(* PWM.  A channel's timer is the one of its number, which it shares.      *)

TimerOf(c) == c % LEDC_TIMER_MAX

\* How many duties a resolution has, 1U << res.
Steps[res \in 0..14] == IF res = 0 THEN 1 ELSE 2 * Steps[res - 1]

\* The channel may be refused once the timer has been set, and the record is
\* then that of an earlier PWM_INIT.  A new one starts at duty 0.
PwmInit(c, res) ==
    /\ timers' = [timers EXCEPT ![TimerOf(c)] = res]
    /\ LET others == settled \ {d \in PwmChannels : TimerOf(d) = TimerOf(c)} IN
       \/ /\ s_ch' = [s_ch EXCEPT ![c] = res]
          /\ duties' = [duties EXCEPT ![c] = 0]
          /\ settled' = others \cup {c}
       \/ settled' = others /\ UNCHANGED <<s_ch, duties>>

PwmSet(c, duty) ==
    LET max == Steps[s_ch[c]] - 1 IN
    /\ s_ch[c] # 0
    /\ duties' = [duties EXCEPT ![c] = IF duty > max THEN max ELSE duty]
    /\ UNCHANGED <<s_ch, timers, settled>>

PwmStop(c) ==
    /\ s_ch' = [s_ch EXCEPT ![c] = 0]
    /\ settled' = settled \ {c}
    /\ UNCHANGED <<timers, duties>>

Duties == 0..Steps[CHOOSE r \in Resolutions : \A q \in Resolutions : q <= r]

Pwm ==
    /\ \E c \in PwmChannels :
          \/ \E res \in Resolutions : PwmInit(c, res)
          \/ \E duty \in Duties : PwmSet(c, duty)
          \/ PwmStop(c)
    /\ UNCHANGED <<i2cVars, spiVars, dacVars, adcVars>>

-----------------------------------------------------------------------------
(* DAC_WRITE takes a channel once; every ADC command takes the unit and    *)
(* configures its channel once (ensure_channel).                           *)

DacWrite(c) ==
    /\ c \notin s_dac /\ c \notin dacs
    /\ s_dac' = s_dac \cup {c}
    /\ dacs' = dacs \cup {c}
    /\ UNCHANGED <<i2cVars, spiVars, pwmVars, adcVars>>

\* The unit stays taken when the channel is refused.
EnsureChannel(c) ==
    /\ c \notin s_ch_inited
    /\ s_h \/ ~adc_unit
    /\ s_h' = TRUE
    /\ adc_unit' = TRUE
    /\ \/ adc_ready' = adc_ready \cup {c} /\ s_ch_inited' = s_ch_inited \cup {c}
       \/ UNCHANGED <<adc_ready, s_ch_inited>>
    /\ UNCHANGED <<i2cVars, spiVars, pwmVars, dacVars>>

DriversNext ==
    \/ I2c \/ Spi \/ Pwm
    \/ \E c \in DacChannels : DacWrite(c)
    \/ \E c \in AdcChannels : EnsureChannel(c)

DriversSpec == DriversInit /\ [][DriversNext]_driversVars

-----------------------------------------------------------------------------
(* Properties.                                                             *)

\* Types (periph_i2c.c 17, periph_spi.c 26-27, periph_pwm.c 13-21).
DriversTypeOK ==
    /\ s_bus \subseteq I2cPorts /\ buses \subseteq I2cPorts /\ transfer \subseteq s_bus
    /\ attached \in [I2cPorts -> Nat]
    /\ s_bus_inited \subseteq SpiHosts /\ s_dev \subseteq SpiHosts /\ spi_buses \subseteq SpiHosts
    /\ spi_devices \in [SpiHosts -> Nat]
    /\ s_ch \in [PwmChannels -> Resolutions \cup {0}]
    /\ timers \in [0..(LEDC_TIMER_MAX - 1) -> Resolutions \cup {0}]
    /\ duties \in [PwmChannels -> Nat]
    /\ settled \subseteq PwmChannels
    /\ s_dac \subseteq DacChannels /\ dacs \subseteq DacChannels
    /\ s_h \in BOOLEAN /\ s_ch_inited \subseteq AdcChannels
    /\ adc_unit \in BOOLEAN /\ adc_ready \subseteq AdcChannels

\* Whatever call failed on the way, the tables name what the drivers have and
\* nothing else: no handle dangles, no driver object is lost, and every INIT can
\* be tried again (periph_i2c.c 29-43, 68-101, periph_spi.c 43-60, periph_dac.c
\* 22-28, periph_adc.c 35-58).
HandlesHold ==
    /\ s_bus = buses
    /\ \A p \in I2cPorts : attached[p] = IF p \in transfer THEN 1 ELSE 0
    /\ s_bus_inited = spi_buses
    /\ \A h \in SpiHosts : spi_devices[h] = IF h \in s_dev THEN 1 ELSE 0
    /\ s_dac = dacs /\ s_h = adc_unit /\ s_ch_inited \subseteq adc_ready

\* A PWM channel alone on its timer has the resolution it was given and a duty
\* that fits it (periph_pwm.c 29-66).
DutiesFit == \A c \in settled : timers[TimerOf(c)] = s_ch[c] /\ duties[c] < Steps[s_ch[c]]

TablesMatch == HandlesHold /\ DutiesFit
===============================================================================
