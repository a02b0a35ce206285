-------------------------------- MODULE Adc --------------------------------
(***************************************************************************)
(* The ADC driver (kernel/src/ads1015.c) over I2C (kernel/src/i2c.c), with  *)
(* the controller, which has one FIFO for both directions, and the ADS1015  *)
(* at the other end, which may fail to acknowledge a transfer.              *)
(*                                                                          *)
(* adc_read is three transfers: the configuration, which starts a           *)
(* conversion, the pointer to the conversion register, and its two bytes.   *)
(* No transfer reports an error to it.                                      *)
(***************************************************************************)
EXTENDS Gpio, Sequences

CONSTANTS
  Channels,   \* the inputs of the ADC: 0 .. 3
  NoChannel   \* not one of them

ASSUME AdcAssumption == NoChannel \notin Channels

SDA == 2
SCL == 3

\* The two registers of the ADS1015 that the driver uses.
CONV_REG   == 0
CONFIG_REG == 1

VARIABLES
  step,       \* where adc_read is: "none", then each transfer and its wait
  channel,    \* its argument
  fifo,       \* the controller's FIFO
  done,       \* the DONE bit of its status register
  active,     \* the transfer the controller has started, or "none"
  pointer, converting, converted,    \* ADS1015: registers and conversion
  failed,     \* auxiliary: a transfer of this call was not acknowledged
  earlier     \* auxiliary: the channels converted, or in conversion, at the call

adcVars == <<step, channel, fifo, done, active, pointer, converting,
             converted, failed, earlier>>

AdcInit ==
  /\ step = "none" /\ channel = NoChannel
  /\ fifo = <<>> /\ done = FALSE /\ active = "none"
  /\ pointer = CONV_REG /\ converting = NoChannel /\ converted = NoChannel
  /\ failed = FALSE /\ earlier = {}

\* Bytes, by what they say.
Byte2(what, c) == [what |-> what, of |-> c]
Sample(c) == <<Byte2("high", c), Byte2("low", c)>>
ConfigBytes(c) == <<Byte2("register", CONFIG_REG), Byte2("config", c), Byte2("defaults", 0)>>
PointerByte == <<Byte2("register", CONV_REG)>>
Junk == Byte2("junk", 0)

----------------------------------------------------------------------------
(* The driver.                                                              *)

adc_init ==
  /\ step = "none"
  /\ gpfsel' = gpio_config(SCL, ALT0, gpio_config(SDA, ALT0, gpfsel))
  /\ fifo' = <<>>
  /\ UNCHANGED <<step, channel, done, active, pointer, converting,
                 converted, failed, earlier>>

adc_read(c) ==
  /\ step = "none"
  /\ step' = "config" /\ channel' = c
  /\ failed' = FALSE /\ earlier' = {converting, converted}
  /\ UNCHANGED <<fifo, done, active, pointer, converting, converted, gpfsel>>

\* i2c_master_write and i2c_master_read up to the start of the transfer: the
\* write clears the FIFO and fills it, the read leaves it alone.
StartTransfer(from, to, filled) ==
  /\ step = from /\ step' = to
  /\ fifo' = filled
  /\ active' = from
  /\ UNCHANGED <<channel, done, pointer, converting, converted, failed,
                 earlier, gpfsel>>

StartConfig  == StartTransfer("config", "config wait", ConfigBytes(channel))
StartPointer == StartTransfer("pointer", "pointer wait", PointerByte)
StartRead    == StartTransfer("read", "read wait", fifo)

\* Mutant: the status is read and not written back, so DONE stays set.
DoneAfterKept == done

\* The last lines of both: the status written back clears DONE (and ERR).
DoneAfter == FALSE

EndWrite(from, to) ==
  /\ step = from /\ done
  /\ step' = to /\ done' = DoneAfter
  /\ UNCHANGED <<channel, fifo, active, pointer, converting, converted,
                 failed, earlier, gpfsel>>

EndConfig  == EndWrite("config wait", "pointer")
EndPointer == EndWrite("pointer wait", "read")

\* i2c_master_read takes two bytes from the FIFO, whatever is in it, and
\* adc_read returns them; an empty FIFO gives anything.
Returned ==
  LET Taken(i) == IF i <= Len(fifo) THEN fifo[i] ELSE Junk
  IN  <<Taken(1), Taken(2)>>

EndRead ==
  /\ step = "read wait" /\ done
  /\ fifo' = IF Len(fifo) <= 2 THEN <<>> ELSE SubSeq(fifo, 3, Len(fifo))
  /\ step' = "none" /\ done' = DoneAfter
  /\ channel' = NoChannel /\ failed' = FALSE /\ earlier' = {}
  /\ UNCHANGED <<active, pointer, converting, converted, gpfsel>>

----------------------------------------------------------------------------
(* The hardware.                                                            *)

I2cWired == \A pin \in {SDA, SCL} : Function(pin) = ALT0

\* The registers of the ADS1015 as a write of the whole FIFO leaves them: a byte
\* that names a register, then perhaps a configuration.
Written ==
  /\ pointer' = fifo[1].of
  /\ IF Len(fifo) = 3 THEN converting' = fifo[2].of ELSE UNCHANGED converting
  /\ fifo' = <<>>

\* A transfer is over: acknowledged, or not, and then the FIFO stays as it is.
TransferDone ==
  /\ active # "none"
  /\ \/ /\ I2cWired
        /\ IF active = "read"
             THEN /\ fifo' = fifo \o IF pointer = CONV_REG THEN Sample(converted)
                                     ELSE Tail(ConfigBytes(converting))
                  /\ UNCHANGED <<pointer, converting>>
             ELSE Written
        /\ UNCHANGED failed
     \/ failed' = TRUE /\ UNCHANGED <<fifo, pointer, converting>>
  /\ active' = "none" /\ done' = TRUE
  /\ UNCHANGED <<step, channel, converted, earlier, gpfsel>>

\* A conversion is over; the driver does not wait for that.
ConversionDone ==
  /\ converting # NoChannel /\ converted # converting
  /\ converted' = converting
  /\ UNCHANGED <<step, channel, fifo, done, active, pointer, converting,
                 failed, earlier, gpfsel>>

\* The steps of a call in progress.
AdcStep ==
  \/ StartConfig \/ EndConfig
  \/ StartPointer \/ EndPointer
  \/ StartRead \/ EndRead

AdcHardware == TransferDone \/ ConversionDone

----------------------------------------------------------------------------
(* Properties.                                                              *)

\* A failed transfer spoils its own call only: whatever failed before and
\* whatever it left in the FIFO, a call whose transfers were all acknowledged
\* returns the two bytes of one sample, of the channel asked for or, because
\* nobody waits for the conversion, of one asked for before.
ReadsOneSample ==
  [][(step = "read wait" /\ step' = "none" /\ ~failed)
       => \E c \in {channel} \cup earlier : Returned = Sample(c)]_adcVars

=============================================================================
