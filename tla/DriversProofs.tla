--------------------------- MODULE DriversProofs ---------------------------
(***************************************************************************)
(* Proofs about the drivers together, for every set of channels and every   *)
(* size of the panel: whatever transfers failed before, a call of adc_read  *)
(* without a failure returns one sample; no driver takes another's pins;    *)
(* the display driver does what Screen says, but for oled_buf_clr.          *)
(***************************************************************************)
EXTENDS Drivers, TLAPS

\* The waits of adc_read: DONE is down exactly as long as the transfer waited
\* for is going on.
WaitInv ==
  /\ step \in {"none", "config", "config wait", "pointer", "pointer wait", "read", "read wait"}
  /\ done \in BOOLEAN /\ failed \in BOOLEAN
  /\ active = CASE step = "config wait" /\ ~done  -> "config"
                [] step = "pointer wait" /\ ~done -> "pointer"
                [] step = "read wait" /\ ~done    -> "read"
                [] OTHER                          -> "none"
  /\ done => step \in {"config wait", "pointer wait", "read wait"}

\* A write finds its own bytes in the FIFO, and nothing that was left there.
WriteInv ==
  /\ active = "config" => fifo = ConfigBytes(channel)
  /\ active = "pointer" => fifo = PointerByte

\* What the ADC converts was asked for by this call or before it.
ChannelInv ==
  step # "none" => {converting, converted} \subseteq {channel} \cup earlier

\* From the pointer's transfer to the read's the FIFO is empty and the ADC
\* points at its conversion register, if all was acknowledged.
CleanInv ==
  ~failed =>
    /\ \/ step = "config wait" /\ done
       \/ step \in {"pointer", "read"}
       \/ step = "pointer wait" /\ done
       \/ step = "read wait" /\ ~done
       => fifo = <<>>
    /\ \/ step = "pointer wait" /\ done
       \/ step = "read"
       \/ step = "read wait"
       => pointer = CONV_REG
    /\ step = "read wait" /\ done => \E c \in {channel} \cup earlier : fifo = Sample(c)

AdcInv == WaitInv /\ WriteInv /\ ChannelInv /\ CleanInv

\* A call begins, or the controller is set up.
LEMMA CallStep ==
  ASSUME AdcInv, adc_init \/ \E c \in Channels : adc_read(c)
  PROVE  AdcInv'
<1>1. CASE adc_init
  BY <1>1 DEF adc_init, AdcInv, WaitInv, WriteInv, ChannelInv, CleanInv
<1>2. CASE \E c \in Channels : adc_read(c)
  <2>1. /\ step = "none" /\ step' = "config" /\ earlier' = {converting, converted}
        /\ failed' = FALSE
        /\ UNCHANGED <<fifo, done, active, pointer, converting, converted>>
    BY <1>2 DEF adc_read
  <2>2. active = "none" /\ done = FALSE
    BY <2>1 DEF AdcInv, WaitInv
  <2>3. WaitInv'
    BY <2>1, <2>2 DEF WaitInv
  <2>4. WriteInv' /\ ChannelInv' /\ CleanInv'
    BY <2>1, <2>2 DEF WriteInv, ChannelInv, CleanInv
  <2>. QED  BY <2>3, <2>4 DEF AdcInv
<1>. QED  BY <1>1, <1>2

\* A transfer begins.
LEMMA StartStep ==
  ASSUME AdcInv, StartConfig \/ StartPointer \/ StartRead
  PROVE  AdcInv'
<1>1. CASE StartConfig
  BY <1>1 DEF StartConfig, StartTransfer, AdcInv, WaitInv, WriteInv, ChannelInv, CleanInv
<1>2. CASE StartPointer
  BY <1>2 DEF StartPointer, StartTransfer, AdcInv, WaitInv, WriteInv, ChannelInv, CleanInv
<1>3. CASE StartRead
  BY <1>3 DEF StartRead, StartTransfer, AdcInv, WaitInv, WriteInv, ChannelInv, CleanInv
<1>. QED  BY <1>1, <1>2, <1>3

\* The driver sees that a transfer is over.
LEMMA EndStep ==
  ASSUME AdcInv, EndConfig \/ EndPointer \/ EndRead
  PROVE  AdcInv'
<1>1. CASE EndConfig
  BY <1>1 DEF EndConfig, EndWrite, DoneAfter, AdcInv, WaitInv, WriteInv, ChannelInv, CleanInv
<1>2. CASE EndPointer
  BY <1>2 DEF EndPointer, EndWrite, DoneAfter, AdcInv, WaitInv, WriteInv, ChannelInv, CleanInv
<1>3. CASE EndRead
  BY <1>3 DEF EndRead, DoneAfter, AdcInv, WaitInv, WriteInv, ChannelInv, CleanInv
<1>. QED  BY <1>1, <1>2, <1>3

\* A transfer is over, acknowledged or not.
LEMMA TransferStep ==
  ASSUME AdcInv, TransferDone
  PROVE  AdcInv'
<1>1. /\ active # "none" /\ active' = "none" /\ done' = TRUE /\ ~done
      /\ UNCHANGED <<step, channel, converted, earlier>>
  BY DEF TransferDone, AdcInv, WaitInv
<1>2. CASE failed' = TRUE /\ UNCHANGED <<fifo, pointer, converting>>
  BY <1>1, <1>2 DEF AdcInv, WaitInv, WriteInv, ChannelInv, CleanInv
<1>3. CASE active = "config" /\ Written /\ UNCHANGED failed
  <2>1. fifo = ConfigBytes(channel) /\ step = "config wait"
    BY <1>1, <1>3 DEF AdcInv, WaitInv, WriteInv
  <2>2. converting' = channel /\ fifo' = <<>>
    BY <1>3, <2>1 DEF Written, ConfigBytes, Byte2
  <2>. QED
    BY <1>1, <1>3, <2>1, <2>2 DEF AdcInv, WaitInv, WriteInv, ChannelInv, CleanInv
<1>4. CASE active = "pointer" /\ Written /\ UNCHANGED failed
  <2>1. fifo = PointerByte /\ step = "pointer wait"
    BY <1>1, <1>4 DEF AdcInv, WaitInv, WriteInv
  <2>2. pointer' = CONV_REG /\ UNCHANGED converting /\ fifo' = <<>>
    <3>1. Len(fifo) = 1 /\ fifo[1] = [what |-> "register", of |-> CONV_REG]
      BY <2>1 DEF PointerByte, Byte2
    <3>. QED  BY <1>4, <3>1 DEF Written
  <2>. QED
    BY <1>1, <1>4, <2>1, <2>2 DEF AdcInv, WaitInv, WriteInv, ChannelInv, CleanInv
<1>5. CASE active = "read" /\ UNCHANGED <<failed, pointer, converting>>
           /\ fifo' = fifo \o IF pointer = CONV_REG THEN Sample(converted)
                              ELSE Tail(ConfigBytes(converting))
  <2>1. step = "read wait"
    BY <1>1, <1>5 DEF AdcInv, WaitInv
  <2>2. ASSUME ~failed PROVE fifo' = Sample(converted)
    <3>1. fifo = <<>> /\ pointer = CONV_REG
      BY <1>1, <2>1, <2>2 DEF AdcInv, CleanInv
    <3>. QED  BY <1>5, <3>1 DEF Sample
  <2>3. converted \in {channel} \cup earlier
    BY <2>1 DEF AdcInv, ChannelInv
  <2>. QED
    BY <1>1, <1>5, <2>1, <2>2, <2>3 DEF AdcInv, WaitInv, WriteInv, ChannelInv, CleanInv
<1>6. active \in {"config", "pointer", "read"}
  BY <1>1 DEF AdcInv, WaitInv
<1>. QED  BY <1>2, <1>3, <1>4, <1>5, <1>6 DEF TransferDone

\* A conversion is over.
LEMMA ConversionStep ==
  ASSUME AdcInv, ConversionDone
  PROVE  AdcInv'
BY DEF ConversionDone, AdcInv, WaitInv, WriteInv, ChannelInv, CleanInv

\* The steps of the other drivers leave the ADC's driver alone.
LEMMA AdcInvStep == AdcInv /\ [Next]_allVars => AdcInv'
<1>. SUFFICES ASSUME AdcInv, [Next]_allVars PROVE AdcInv'
  OBVIOUS
<1>1. CASE UNCHANGED adcVars
  BY <1>1 DEF adcVars, AdcInv, WaitInv, WriteInv, ChannelInv, CleanInv
<1>2. CASE CallDisplay
  BY <1>1, <1>2 DEF CallDisplay
<1>3. CASE CallAdc
  BY <1>3, CallStep DEF CallAdc
<1>4. CASE AdcStep \/ AdcHardware
  BY <1>4, StartStep, EndStep, TransferStep, ConversionStep DEF AdcStep, AdcHardware
<1>5. CASE UNCHANGED allVars
  BY <1>1, <1>5 DEF allVars
<1>. QED  BY <1>1, <1>2, <1>3, <1>4, <1>5 DEF Next, Hang

\* The two bytes taken from a FIFO that holds a sample are that sample.
LEMMA SampleTaken ==
  ASSUME NEW c, fifo = Sample(c)
  PROVE  Returned = Sample(c)
<1>1. Len(fifo) = 2 /\ fifo = <<Byte2("high", c), Byte2("low", c)>>
  BY DEF Sample
<1>. QED  BY <1>1 DEF Returned, Sample

\* Only the end of a read returns to the caller.
LEMMA ReadStep ==
  ASSUME AdcInv, [Next]_allVars, step = "read wait", step' = "none", ~failed
  PROVE  \E c \in {channel} \cup earlier : Returned = Sample(c)
<1>1. EndRead
  BY DEF Next, CallDisplay, CallAdc, Free, Hang, AdcStep, AdcHardware, StartConfig, StartPointer,
     StartRead, StartTransfer, EndConfig, EndPointer, EndWrite, TransferDone, ConversionDone,
     allVars, adcVars
<1>2. PICK c \in {channel} \cup earlier : fifo = Sample(c)
  BY <1>1 DEF EndRead, AdcInv, CleanInv
<1>3. Returned = Sample(c)
  BY <1>2, SampleTaken
<1>. QED  BY <1>2, <1>3

\* A call whose transfers were all acknowledged returns the two bytes of one
\* sample, of this call's channel or of an earlier one's, for every set of
\* channels.
THEOREM OneSample == Spec => ReadsOneSample
<1>1. Init => AdcInv
  BY DEF Init, AdcInit, AdcInv, WaitInv, WriteInv, ChannelInv, CleanInv
<1>2. AdcInv /\ [Next]_allVars => AdcInv'
  BY AdcInvStep
<1>3. AdcInv /\ [Next]_allVars =>
        [(step = "read wait" /\ step' = "none" /\ ~failed)
           => \E c \in {channel} \cup earlier : Returned = Sample(c)]_adcVars
  BY ReadStep
<1>. QED  BY <1>1, <1>2, <1>3, PTL DEF Spec, ReadsOneSample

----------------------------------------------------------------------------
(* The pins.                                                                *)

Pins == 0 .. 19
Registers == [0 .. 1 -> [0 .. 9 -> 0 .. 7]]
Field(regs, pin) == regs[pin \div 10][pin % 10]

\* The registers after one pin was given a function, and no other a new one.
Sets(regs, old, pin, fun) ==
  /\ regs \in Registers
  /\ \A other \in Pins : Field(regs, other) = IF other = pin THEN fun ELSE Field(old, other)

\* That is what gpio_config does.
LEMMA ConfigOnePin ==
  ASSUME NEW old \in Registers, NEW pin \in Pins, NEW fun \in 0 .. 7
  PROVE  Sets(gpio_config(pin, fun, old), old, pin, fun)
<1>. DEFINE r == pin \div 10
            f == pin % 10
<1>1. r \in 0 .. 1 /\ f \in 0 .. 9 /\ pin = 10 * r + f
  BY DEF Pins
<1>2. gpio_config(pin, fun, old) = [old EXCEPT ![r][f] = fun]
  BY DEF gpio_config, Pins
<1>3. ASSUME NEW other \in Pins
      PROVE  Field(gpio_config(pin, fun, old), other) =
               IF other = pin THEN fun ELSE Field(old, other)
  <2>. DEFINE s == other \div 10
              g == other % 10
  <2>1. s \in 0 .. 1 /\ g \in 0 .. 9 /\ other = 10 * s + g
    BY DEF Pins
  <2>2. Field(gpio_config(pin, fun, old), other) = [old EXCEPT ![r][f] = fun][s][g]
        /\ Field(old, other) = old[s][g]
    BY <1>2 DEF Field
  <2>. HIDE DEF r, f, s, g
  <2>3. other = pin <=> s = r /\ g = f
    BY <1>1, <2>1
  <2>4. [old EXCEPT ![r][f] = fun][s][g] = IF s = r /\ g = f THEN fun ELSE old[s][g]
    BY <1>1, <2>1 DEF Registers
  <2>. QED  BY <2>2, <2>3, <2>4
<1>4. gpio_config(pin, fun, old) \in Registers
  <2>. HIDE DEF r, f
  <2>1. old[r] \in [0 .. 9 -> 0 .. 7]
    BY <1>1 DEF Registers
  <2>2. [old[r] EXCEPT ![f] = fun] \in [0 .. 9 -> 0 .. 7]
    BY <1>1, <2>1
  <2>3. [old EXCEPT ![r] = [old[r] EXCEPT ![f] = fun]] \in Registers
    BY <1>1, <2>2 DEF Registers
  <2>4. [old EXCEPT ![r][f] = fun] = [old EXCEPT ![r] = [old[r] EXCEPT ![f] = fun]]
    BY <1>1 DEF Registers
  <2>. QED  BY <1>2, <2>3, <2>4
<1>. QED  BY <1>3, <1>4 DEF Sets

\* The pins of the drivers, and what each driver makes of its own.
PinInv == gpfsel \in Registers /\ PinsKept

LEMMA PinsInit == Init => PinInv
<1>. SUFFICES ASSUME Init PROVE PinInv
  OBVIOUS
<1>1. PowerOn \in Registers
  BY DEF PowerOn, INPUT, Registers
<1>2. 14 \in Pins /\ 15 \in Pins /\ ALT5 \in 0 .. 7
  BY DEF Pins, ALT5
<1>3. PICK one : /\ one = gpio_config(15, ALT5, PowerOn)
                 /\ Sets(one, PowerOn, 15, ALT5)
  BY <1>1, <1>2, ConfigOnePin
<1>4. gpfsel = gpio_config(14, ALT5, one) /\ one \in Registers
  BY <1>3 DEF Init, RX_PIN, TX_PIN, Sets
<1>5. Sets(gpfsel, one, 14, ALT5)
  BY <1>2, <1>4, ConfigOnePin
<1>6. Field(gpfsel, 14) = ALT5 /\ Field(gpfsel, 15) = ALT5
  BY <1>2, <1>3, <1>5 DEF Sets
<1>7. oledReady = FALSE /\ adcReady = FALSE
  BY DEF Init
<1>. QED  BY <1>5, <1>6, <1>7 DEF PinInv, PinsKept, Function, Field, Sets, RX_PIN, TX_PIN

\* adc_init gives the I2C pins to the controller.
LEMMA AdcPins ==
  ASSUME PinInv, adc_init
  PROVE  /\ gpfsel' \in Registers
         /\ Field(gpfsel', 2) = ALT0 /\ Field(gpfsel', 3) = ALT0
         /\ \A pin \in Pins \ {2, 3} : Field(gpfsel', pin) = Field(gpfsel, pin)
<1>1. 2 \in Pins /\ 3 \in Pins /\ ALT0 \in 0 .. 7
  BY DEF Pins, ALT0
<1>2. PICK one : one = gpio_config(2, ALT0, gpfsel) /\ Sets(one, gpfsel, 2, ALT0)
  BY <1>1, ConfigOnePin DEF PinInv
<1>3. gpfsel' = gpio_config(3, ALT0, one) /\ one \in Registers
  BY <1>2 DEF adc_init, SDA, SCL, Sets
<1>4. Sets(gpfsel', one, 3, ALT0)
  BY <1>1, <1>3, ConfigOnePin
<1>. QED  BY <1>1, <1>2, <1>4 DEF Sets

\* oled_init gives the panel its pins, the two it drives itself as outputs.
LEMMA OledPins ==
  ASSUME PinInv, oled_init
  PROVE  /\ gpfsel' \in Registers
         /\ \A pin \in {7, 8, 10, 11} : Field(gpfsel', pin) = ALT0
         /\ \A pin \in {9, 16} : Field(gpfsel', pin) = OUTPUT
         /\ \A pin \in Pins \ ((7 .. 11) \cup {16}) : Field(gpfsel', pin) = Field(gpfsel, pin)
<1>1. /\ 7 \in Pins /\ 8 \in Pins /\ 9 \in Pins /\ 10 \in Pins /\ 11 \in Pins /\ 16 \in Pins
      /\ ALT0 \in 0 .. 7 /\ OUTPUT \in 0 .. 7
  BY DEF Pins, ALT0, OUTPUT
<1>2. PICK g1 : g1 = gpio_config(16, OUTPUT, gpfsel) /\ Sets(g1, gpfsel, 16, OUTPUT)
  BY <1>1, ConfigOnePin DEF PinInv
<1>3. PICK g2 : g2 = gpio_config(9, OUTPUT, g1) /\ Sets(g2, g1, 9, OUTPUT)
  <2>. g1 \in Registers
    BY <1>2 DEF Sets
  <2>. QED  BY <1>1, ConfigOnePin
<1>4. PICK g3 : g3 = gpio_config(7, ALT0, g2) /\ Sets(g3, g2, 7, ALT0)
  <2>. g2 \in Registers
    BY <1>3 DEF Sets
  <2>. QED  BY <1>1, ConfigOnePin
<1>5. PICK g4 : g4 = gpio_config(8, ALT0, g3) /\ Sets(g4, g3, 8, ALT0)
  <2>. g3 \in Registers
    BY <1>4 DEF Sets
  <2>. QED  BY <1>1, ConfigOnePin
<1>6. PICK g5 : g5 = gpio_config(10, ALT0, g4) /\ Sets(g5, g4, 10, ALT0)
  <2>. g4 \in Registers
    BY <1>5 DEF Sets
  <2>. QED  BY <1>1, ConfigOnePin
<1>7. gpfsel' = gpio_config(11, ALT0, g5) /\ g5 \in Registers
  BY <1>2, <1>3, <1>4, <1>5, <1>6
     DEF oled_init, spi_master_init, Sets, CE1_N, CE0_N, MISO, MOSI, SCLK, RESET
<1>8. Sets(gpfsel', g5, 11, ALT0)
  BY <1>1, <1>7, ConfigOnePin
<1>. QED  BY <1>1, <1>2, <1>3, <1>4, <1>5, <1>6, <1>8 DEF Sets

\* The same in terms of the fields.
FieldsKept ==
  /\ Field(gpfsel, 14) = ALT5 /\ Field(gpfsel, 15) = ALT5
  /\ oledReady => /\ \A pin \in {7, 8, 10, 11} : Field(gpfsel, pin) = ALT0
                  /\ \A pin \in {9, 16} : Field(gpfsel, pin) = OUTPUT
  /\ adcReady => Field(gpfsel, 2) = ALT0 /\ Field(gpfsel, 3) = ALT0

LEMMA PinsInFields == (PinsKept <=> FieldsKept) /\ (PinsKept' <=> FieldsKept')
BY DEF FieldsKept, PinsKept, SpiWired, I2cWired, Function, Field, RX_PIN, TX_PIN, CE1_N, CE0_N,
       MISO, MOSI, SCLK, RESET, SDA, SCL

LEMMA PinsStep == PinInv /\ [Next]_allVars => PinInv'
<1>. SUFFICES ASSUME PinInv, [Next]_allVars PROVE PinInv'
  OBVIOUS
<1>. USE DEF PinInv
<1>a. {2, 3, 7, 8, 9, 10, 11, 14, 15, 16} \subseteq Pins
  BY DEF Pins
<1>1. CASE UNCHANGED <<gpfsel, oledReady, adcReady>>
  BY <1>1 DEF PinsKept, SpiWired, I2cWired, Function
<1>2. CASE CallAdc /\ adc_init
  <2>1. adcReady' = TRUE /\ oledReady' = oledReady
    BY <1>2 DEF CallAdc, adc_init, adc_read
  <2>. QED  BY <1>2, <1>a, <2>1, AdcPins, PinsInFields DEF FieldsKept
<1>3. CASE CallDisplay /\ oled_init
  <2>1. adcReady' = adcReady
    BY <1>3 DEF CallDisplay
  <2>. QED  BY <1>3, <1>a, <2>1, OledPins, PinsInFields DEF FieldsKept
<1>4. CASE CallDisplay /\ oled_reset
  <2>1. gpfsel' = gpio_config(16, OUTPUT, gpfsel) /\ 16 \in Pins /\ OUTPUT \in 0 .. 7
    BY <1>4, <1>a DEF oled_reset, RESET, OUTPUT
  <2>2. Sets(gpfsel', gpfsel, 16, OUTPUT)
    BY <2>1, ConfigOnePin
  <2>3. gpfsel' \in Registers /\ Field(gpfsel', 16) = OUTPUT
    BY <1>a, <2>2 DEF Sets
  <2>4. \A pin \in Pins \ {16} : Field(gpfsel', pin) = Field(gpfsel, pin)
    BY <2>2 DEF Sets
  <2>5. adcReady' = adcReady /\ (oledReady' => oledReady)
    BY <1>4 DEF CallDisplay, oled_reset, OledFree
  <2>. QED  BY <1>a, <2>3, <2>4, <2>5, PinsInFields DEF FieldsKept
<1>5. CASE CallDisplay /\ ~oled_init /\ ~oled_reset
  <2>1. gpfsel' = gpfsel /\ oledCall' # "init"
    BY <1>5 DEF CallDisplay, Free, DisplayCall, Pixel, oled_buf_clr, oled_buf_draw,
       oled_clear_screen, OledFree
  <2>2. adcReady' = adcReady /\ (oledReady' => oledReady)
    BY <1>5, <2>1 DEF CallDisplay
  <2>. QED  BY <2>1, <2>2 DEF PinsKept, SpiWired, I2cWired, Function
<1>6. CASE CallAdc /\ ~adc_init
  BY <1>1, <1>6 DEF CallAdc, adc_read
<1>7. CASE OledStep /\ UNCHANGED <<adcVars, oledReady, adcReady>>
  BY <1>1, <1>7 DEF OledStep
<1>8. CASE (AdcStep \/ AdcHardware) /\ UNCHANGED <<displayVars, oledReady, adcReady>>
  BY <1>1, <1>8 DEF AdcStep, AdcHardware, StartConfig, StartPointer, StartRead, StartTransfer,
     EndConfig, EndPointer, EndWrite, EndRead, TransferDone, ConversionDone
<1>9. CASE UNCHANGED allVars
  BY <1>1, <1>9 DEF allVars
<1>. QED
  BY <1>2, <1>3, <1>4, <1>5, <1>6, <1>7, <1>8, <1>9 DEF Next, Hang

\* The console, the panel and the ADC keep their pins, in whatever order and
\* however often the drivers are set up, whatever the size of the panel and the
\* number of channels: rewriting a register for one pin changes no other pin.
THEOREM DriversKeepPins == Spec => []PinsKept
<1>1. PinInv => PinsKept
  BY DEF PinInv
<1>. QED  BY <1>1, PinsInit, PinsStep, PTL DEF Spec

----------------------------------------------------------------------------
(* Pages and places.                                                        *)

\* A place in rows of d: row a, column b.
LEMMA RowsApart ==
  ASSUME NEW d \in Nat, NEW a \in Nat, NEW b \in Nat, a < b
  PROVE  a * d + d <= b * d
<1>. DEFINE e == b - a - 1
<1>1. e \in Nat /\ b = a + 1 + e
  OBVIOUS
<1>. HIDE DEF e
<1>2. b * d = a * d + d + e * d
  BY <1>1
<1>3. e * d \in Nat /\ a * d \in Nat
  BY <1>1
<1>. QED  BY <1>2, <1>3

LEMMA OnePlace ==
  ASSUME NEW d \in Nat \ {0}, NEW a \in Nat, NEW b \in Nat,
         NEW x \in 0 .. d - 1, NEW y \in 0 .. d - 1, a * d + x = b * d + y
  PROVE  a = b /\ x = y
<1>0. a * d \in Nat /\ b * d \in Nat
  OBVIOUS
<1>1. ~(a < b)
  <2>. SUFFICES ASSUME a < b PROVE FALSE
    OBVIOUS
  <2>1. a * d + d <= b * d
    BY RowsApart
  <2>. QED  BY <1>0, <2>1
<1>2. ~(b < a)
  <2>. SUFFICES ASSUME b < a PROVE FALSE
    OBVIOUS
  <2>1. b * d + d <= a * d
    BY RowsApart
  <2>. QED  BY <1>0, <2>1
<1>3. a = b
  BY <1>1, <1>2
<1>. QED  BY <1>0, <1>3

LEMMA Division ==
  ASSUME NEW d \in Nat \ {0}, NEW n \in Nat
  PROVE  n \div d \in Nat /\ n % d \in 0 .. d - 1 /\ n = (n \div d) * d + (n % d)
OBVIOUS

\* Where a pixel is in the panel's memory: the page and the bit of its row, its
\* column, both turned round.
PageOf(r) == (Rows - 1 - r) \div Cell
BitIn(r)  == (Rows - 1 - r) % Cell
ColOf(c)  == Cols - 1 - c
Place(p, c) == c + p * Cols
Pixels == (0 .. Rows - 1) \X (0 .. Cols - 1)
PageSet == 0 .. Pages - 1
ColSet  == 0 .. Cols - 1
Buffer  == [0 .. BufSize - 1 -> Byte]
Memory  == [PageSet -> [ColSet -> Byte]]

LEMMA Sizes ==
  /\ Cols \in Nat \ {0} /\ Pages \in Nat \ {0} /\ Cell \in Nat \ {0}
  /\ Rows \in Nat /\ BufSize \in Nat /\ BufSize >= 1
  /\ Rows = Pages * Cell /\ BufSize = Pages * Cols
BY DisplayAssumption DEF Rows, BufSize

LEMMA PlaceInBuffer ==
  ASSUME NEW p \in PageSet, NEW c \in ColSet
  PROVE  Place(p, c) \in 0 .. BufSize - 1
<1>1. p * Cols + Cols <= Pages * Cols /\ p * Cols \in Nat
  BY Sizes, RowsApart DEF PageSet
<1>. QED  BY <1>1, Sizes DEF Place, ColSet

LEMMA PlacesApart ==
  ASSUME NEW p \in PageSet, NEW c \in ColSet, NEW q \in PageSet, NEW e \in ColSet,
         Place(p, c) = Place(q, e)
  PROVE  p = q /\ c = e
<1>1. p * Cols + c = q * Cols + e
  <2>1. p * Cols \in Nat /\ q * Cols \in Nat
    BY Sizes DEF PageSet
  <2>. QED  BY <2>1, Sizes DEF Place, ColSet
<1>. QED  BY <1>1, Sizes, OnePlace DEF PageSet, ColSet

\* Every pixel has a place of its own.
LEMMA PixelPlace ==
  ASSUME NEW r \in 0 .. Rows - 1, NEW c \in 0 .. Cols - 1
  PROVE  /\ PageOf(r) \in PageSet /\ BitIn(r) \in 0 .. Cell - 1 /\ ColOf(c) \in ColSet
         /\ BitOf(r, c) = <<Place(PageOf(r), ColOf(c)), BitIn(r)>>
         /\ r = Rows - 1 - (PageOf(r) * Cell + BitIn(r))
<1>. DEFINE row == Rows - 1 - r
            page == row \div Cell
            bit == row % Cell
<1>1. row \in Nat /\ row < Rows /\ r = Rows - 1 - row
  BY Sizes
<1>. HIDE DEF row
<1>2. page \in Nat /\ bit \in 0 .. Cell - 1 /\ row = page * Cell + bit
  BY <1>1, Sizes, Division
<1>. HIDE DEF page, bit
<1>3. page < Pages
  <2>. SUFFICES ASSUME ~(page < Pages) PROVE FALSE
    OBVIOUS
  <2>1. Pages = page \/ Pages < page
    BY <1>2, Sizes
  <2>2. Pages * Cell <= page * Cell
    <3>1. CASE Pages = page
      BY <3>1, Sizes
    <3>2. CASE Pages < page
      BY <3>2, <1>2, Sizes, RowsApart
    <3>. QED  BY <2>1, <3>1, <3>2
  <2>3. page * Cell \in Nat
    BY <1>2, Sizes
  <2>. QED  BY <1>1, <1>2, <2>2, <2>3, Sizes
<1>4. PageOf(r) = page /\ BitIn(r) = bit
  BY DEF PageOf, BitIn, page, bit, row
<1>5. BitOf(r, c) = <<Place(page, ColOf(c)), bit>>
  BY DEF BitOf, Place, ColOf, page, bit, row
<1>6. ColOf(c) \in ColSet
  BY Sizes DEF ColOf, ColSet
<1>. QED  BY <1>1, <1>2, <1>3, <1>4, <1>5, <1>6, Sizes DEF PageSet

LEMMA PixelsApart ==
  ASSUME NEW r \in 0 .. Rows - 1, NEW c \in 0 .. Cols - 1,
         NEW q \in 0 .. Rows - 1, NEW e \in 0 .. Cols - 1, BitOf(r, c) = BitOf(q, e)
  PROVE  r = q /\ c = e
<1>1. Place(PageOf(r), ColOf(c)) = Place(PageOf(q), ColOf(e)) /\ BitIn(r) = BitIn(q)
  BY PixelPlace
<1>2. PageOf(r) = PageOf(q) /\ ColOf(c) = ColOf(e)
  BY <1>1, PixelPlace, PlacesApart
<1>3. r = q
  BY <1>1, <1>2, PixelPlace
<1>4. c = e
  BY <1>2, Sizes DEF ColOf
<1>. QED  BY <1>3, <1>4

\* What is seen, by places.
LitOf(m) == {pixel \in Pixels : BitIn(pixel[1]) \in m[PageOf(pixel[1])][ColOf(pixel[2])]}
PictureOf(f) ==
  {pixel \in Pixels : BitIn(pixel[1]) \in f[Place(PageOf(pixel[1]), ColOf(pixel[2]))]}

LEMMA SeenByPlaces ==
  /\ panel.on /\ panel.segRemap /\ panel.comRemap => Lit = LitOf(ram)
  /\ (panel.on /\ panel.segRemap /\ panel.comRemap => Lit = LitOf(ram))'
  /\ ~panel.on => Lit = {}
  /\ (~panel.on => Lit = {})'
  /\ Picture = PictureOf(frame_buffer)
  /\ Picture' = PictureOf(frame_buffer')
<1>1. \A pixel \in Pixels : BitOf(pixel[1], pixel[2]) =
        <<Place(PageOf(pixel[1]), ColOf(pixel[2])), BitIn(pixel[1])>>
  BY PixelPlace DEF Pixels
<1>2. /\ Picture = PictureOf(frame_buffer)
      /\ Picture' = PictureOf(frame_buffer')
  BY <1>1 DEF Picture, PictureOf, Pixels
<1>3. /\ panel.on /\ panel.segRemap /\ panel.comRemap => Lit = LitOf(ram)
      /\ (panel.on /\ panel.segRemap /\ panel.comRemap => Lit = LitOf(ram))'
  BY DEF Lit, LitOf, Pixels, BitIn, PageOf, ColOf
<1>4. (~panel.on => Lit = {}) /\ (~panel.on => Lit = {})'
  BY DEF Lit
<1>. QED  BY <1>2, <1>3, <1>4

----------------------------------------------------------------------------
(* Scripts.                                                                 *)

\* The commands the driver sends, by the number of their arguments.
Settings == {"CLOCK_DIVIDE", "MULTIPLEX_RATIO", "DISPLAY_OFFSET", "DCDC_CONFIG", "COM_CONFIG",
             "CONTRAST", "PRECHARGE_PERIOD", "VCOMH_DESELECT"}
Plain    == {"START_LINE", "ENTIRE_DISPLAY_NORMAL", "INVERSION_NORMAL"}
Opcodes  == Settings \cup Plain \cup
            {"DISPLAY_OFF", "DISPLAY_ON", "SEG0_IS_COL_127", "SCAN_DIR_DOWN", "ADDRESS_MODE",
             "COLUMN_ADDRESS", "PAGE_ADDRESS"}
Items    == [do : {"command", "data mode", "data", "dark"},
             arg : Opcodes \cup {"value", "HORIZONTAL"} \cup Int]

\* What is left of a script after k of its items.
Rest(left, all, k) ==
  /\ k \in 0 .. Len(all) /\ Len(left) = Len(all) - k
  /\ \A i \in 1 .. Len(left) : left[i] = all[i + k]

LEMMA EmptyIff ==
  ASSUME NEW S, NEW s \in Seq(S)
  PROVE  s = <<>> <=> Len(s) = 0
OBVIOUS

LEMMA OfFunction ==
  ASSUME NEW S, NEW n \in Nat, NEW f \in [1 .. n -> S]
  PROVE  f \in Seq(S) /\ Len(f) = n
OBVIOUS

\* u is s followed by t, item by item.
Joins(u, s, t) ==
  /\ Len(u) = Len(s) + Len(t)
  /\ \A i \in 1 .. Len(s) : u[i] = s[i]
  /\ \A i \in 1 .. Len(t) : u[Len(s) + i] = t[i]

LEMMA Joined ==
  ASSUME NEW S, NEW s \in Seq(S), NEW t \in Seq(S)
  PROVE  s \o t \in Seq(S) /\ Joins(s \o t, s, t)
BY DEF Joins

LEMMA RestWhole ==
  ASSUME NEW all \in Seq(Items)
  PROVE  Rest(all, all, 0)
BY DEF Rest

LEMMA RestStep ==
  ASSUME NEW all \in Seq(Items), NEW left \in Seq(Items), NEW k, Rest(left, all, k), left # <<>>
  PROVE  /\ k \in 0 .. Len(all) - 1 /\ Head(left) = all[k + 1]
         /\ Tail(left) \in Seq(Items) /\ Rest(Tail(left), all, k + 1)
         /\ Tail(left) = <<>> <=> k + 1 = Len(all)
<1>0. Len(left) # 0
  BY EmptyIff
<1>1. Len(all) \in Nat /\ Len(left) \in Nat \ {0} /\ k \in 0 .. Len(all) - 1
  BY <1>0 DEF Rest
<1>2. Head(left) = left[1] /\ Tail(left) \in Seq(Items) /\ Len(Tail(left)) = Len(left) - 1
  BY <1>1
<1>3. \A i \in 1 .. Len(Tail(left)) : Tail(left)[i] = left[i + 1]
  BY <1>1, <1>2
<1>4. Tail(left) = <<>> <=> Len(Tail(left)) = 0
  BY <1>2, EmptyIff
<1>. DEFINE tail == Tail(left)
<1>5. Rest(tail, all, k + 1)
  <2>1. tail \in Seq(Items) /\ Len(tail) = Len(all) - (k + 1)
    BY <1>1, <1>2 DEF Rest
  <2>2. ASSUME NEW i \in 1 .. Len(tail) PROVE tail[i] = all[i + (k + 1)]
    <3>1. tail[i] = left[i + 1] /\ i + 1 \in 1 .. Len(left)
      BY <1>1, <1>2, <1>3
    <3>2. left[i + 1] = all[(i + 1) + k]
      BY <3>1 DEF Rest
    <3>. QED  BY <1>1, <3>1, <3>2
  <2>. HIDE DEF tail
  <2>. QED  BY <1>1, <2>1, <2>2 DEF Rest
<1>6. Head(left) = all[k + 1]
  <2>1. left[1] = all[1 + k]
    BY <1>1 DEF Rest
  <2>. QED  BY <1>1, <1>2, <2>1
<1>7. Len(tail) = Len(all) - (k + 1)
  BY <1>5 DEF Rest
<1>. HIDE DEF Items
<1>. QED  BY <1>1, <1>2, <1>4, <1>5, <1>6, <1>7

\* The script of a drawing call.
DrawScript(call) ==
  StartSequence \o <<DataMode>> \o
    [i \in 1 .. BufSize |-> IF call = "draw" THEN Pixels8(i - 1) ELSE Dark]

LEMMA DrawItems ==
  ASSUME NEW call
  PROVE  /\ DrawScript(call) \in Seq(Items) /\ Len(DrawScript(call)) = 7 + BufSize
         /\ DrawScript(call)[1] = Command("COLUMN_ADDRESS")
         /\ DrawScript(call)[2] = Command(0)
         /\ DrawScript(call)[3] = Command(Cols - 1)
         /\ DrawScript(call)[4] = Command("PAGE_ADDRESS")
         /\ DrawScript(call)[5] = Command(0)
         /\ DrawScript(call)[6] = Command(Pages - 1)
         /\ DrawScript(call)[7] = DataMode
         /\ \A k \in 7 .. 6 + BufSize : DrawScript(call)[k + 1] =
              IF call = "draw" THEN Pixels8(k - 7) ELSE Dark
<1>. DEFINE start == StartSequence
            mode == <<DataMode>>
            data == [i \in 1 .. BufSize |-> IF call = "draw" THEN Pixels8(i - 1) ELSE Dark]
<1>0. ASSUME NEW n \in Int PROVE Command(n) \in Items /\ Pixels8(n) \in Items
  BY DEF Items, Command, Pixels8
<1>a. /\ Command("COLUMN_ADDRESS") \in Items /\ Command("PAGE_ADDRESS") \in Items
      /\ Dark \in Items /\ DataMode \in Items
  BY DEF Items, Opcodes, Command, Dark, DataMode
<1>1. start \in Seq(Items) /\ Len(start) = 6
  <2>. HIDE DEF Items
  <2>1. Command(0) \in Items /\ Command(Cols - 1) \in Items /\ Command(Pages - 1) \in Items
    BY <1>0, Sizes
  <2>. QED  BY <1>a, <2>1 DEF StartSequence
<1>2. mode \in Seq(Items) /\ Len(mode) = 1 /\ mode[1] = DataMode
  <2>. HIDE DEF Items
  <2>. QED  BY <1>a
<1>3. data \in Seq(Items) /\ Len(data) = BufSize
  <2>. HIDE DEF Items
  <2>1. \A i \in 1 .. BufSize : data[i] \in Items
    BY <1>0, <1>a, Sizes
  <2>2. data \in [1 .. BufSize -> Items]
    BY <2>1
  <2>. HIDE DEF data
  <2>. QED  BY <2>2, Sizes, OfFunction
<1>. DEFINE front == start \o mode
            all == DrawScript(call)
<1>4. all = front \o data
  BY DEF DrawScript
<1>5. \A i \in 1 .. BufSize : data[i] = IF call = "draw" THEN Pixels8(i - 1) ELSE Dark
  OBVIOUS
<1>6. /\ start[1] = Command("COLUMN_ADDRESS") /\ start[2] = Command(0)
      /\ start[3] = Command(Cols - 1) /\ start[4] = Command("PAGE_ADDRESS")
      /\ start[5] = Command(0) /\ start[6] = Command(Pages - 1)
  BY DEF StartSequence
<1>b. front = start \o mode
  OBVIOUS
<1>. HIDE DEF start, mode, data, Items, front, all
<1>7. /\ front \in Seq(Items) /\ Len(front) = 7
      /\ \A i \in 1 .. 6 : front[i] = start[i]
      /\ front[7] = DataMode
  <2>1. front \in Seq(Items) /\ Joins(front, start, mode)
    BY <1>1, <1>2, <1>b, Joined
  <2>. QED  BY <1>1, <1>2, <2>1 DEF Joins
<1>8. /\ all \in Seq(Items) /\ Len(all) = 7 + BufSize
      /\ \A i \in 1 .. 7 : all[i] = front[i]
      /\ \A i \in 1 .. BufSize : all[7 + i] = data[i]
  <2>1. all \in Seq(Items) /\ Joins(all, front, data)
    BY <1>3, <1>4, <1>7, Joined
  <2>. QED  BY <1>3, <1>7, <2>1 DEF Joins
<1>9. ASSUME NEW k \in 7 .. 6 + BufSize
      PROVE  all[k + 1] = IF call = "draw" THEN Pixels8(k - 7) ELSE Dark
  <2>1. k - 6 \in 1 .. BufSize /\ 7 + (k - 6) = k + 1 /\ (k - 6) - 1 = k - 7
    BY Sizes
  <2>2. all[7 + (k - 6)] = data[k - 6]
    BY <1>8, <2>1
  <2>3. data[k - 6] = IF call = "draw" THEN Pixels8((k - 6) - 1) ELSE Dark
    BY <1>5, <2>1
  <2>. QED  BY <2>1, <2>2, <2>3
<1>10. /\ all[1] = start[1] /\ all[2] = start[2] /\ all[3] = start[3] /\ all[4] = start[4]
       /\ all[5] = start[5] /\ all[6] = start[6] /\ all[7] = DataMode
  BY <1>7, <1>8
<1>11. all = DrawScript(call)
  BY DEF all
<1>. QED  BY <1>6, <1>8, <1>9, <1>10, <1>11

\* Where in oled_init's script which commands are.
SettingAt == {2, 4, 6, 9, 15, 17, 19, 21}
PlainAt   == {8, 23, 24}

LEMMA InitItems ==
  /\ InitSequence \in Seq(Items) /\ Len(InitSequence) = 25
  /\ \A k \in 1 .. 25 : InitSequence[k].do = "command"
  /\ \A k \in SettingAt : InitSequence[k].arg \in Settings
  /\ \A k \in PlainAt : InitSequence[k].arg \in Plain
  /\ InitSequence[1].arg = "DISPLAY_OFF" /\ InitSequence[11].arg = "ADDRESS_MODE"
  /\ InitSequence[13].arg = "SEG0_IS_COL_127" /\ InitSequence[14].arg = "SCAN_DIR_DOWN"
  /\ InitSequence[25].arg = "DISPLAY_ON"
<1>1. /\ \A s \in {"DISPLAY_OFF", "CLOCK_DIVIDE", "value", "MULTIPLEX_RATIO", "DISPLAY_OFFSET",
                   "START_LINE", "DCDC_CONFIG", "ADDRESS_MODE", "HORIZONTAL", "SEG0_IS_COL_127",
                   "SCAN_DIR_DOWN", "COM_CONFIG", "CONTRAST", "PRECHARGE_PERIOD",
                   "VCOMH_DESELECT", "ENTIRE_DISPLAY_NORMAL", "INVERSION_NORMAL",
                   "DISPLAY_ON"} : Command(s) \in Items
  BY DEF Items, Opcodes, Settings, Plain, Command
<1>2. InitSequence \in Seq(Items) /\ Len(InitSequence) = 25
  <2>. HIDE DEF Items, Command
  <2>. QED  BY <1>1 DEF InitSequence
<1>3. \A k \in 1 .. 25 : InitSequence[k].do = "command"
  BY DEF InitSequence, Command
<1>4. \A k \in SettingAt : InitSequence[k].arg \in Settings
  BY DEF InitSequence, Command, SettingAt, Settings
<1>5. \A k \in PlainAt : InitSequence[k].arg \in Plain
  BY DEF InitSequence, Command, PlainAt, Plain
<1>6. /\ InitSequence[1].arg = "DISPLAY_OFF" /\ InitSequence[11].arg = "ADDRESS_MODE"
      /\ InitSequence[13].arg = "SEG0_IS_COL_127" /\ InitSequence[14].arg = "SCAN_DIR_DOWN"
      /\ InitSequence[25].arg = "DISPLAY_ON"
  BY DEF InitSequence, Command
<1>. QED  BY <1>2, <1>3, <1>4, <1>5, <1>6

----------------------------------------------------------------------------
(* What the panel has been told so far.                                     *)

Fields == {"on", "horizontal", "segRemap", "comRemap", "cols", "pages", "col", "page", "command"}

\* The panel's windows are the whole memory, its pointers are inside; when it is
\* on it is set up as the driver needs it.
PanelInv ==
  /\ DOMAIN panel = Fields
  /\ panel.cols = <<0, Cols - 1>> /\ panel.pages = <<0, Pages - 1>>
  /\ panel.col \in ColSet /\ panel.page \in PageSet
  /\ panel.on => panel.horizontal /\ panel.segRemap /\ panel.comRemap

\* Between calls nothing is half said; during a call the panel is wired.
CallInv ==
  /\ frame_buffer \in Buffer /\ ram \in Memory
  /\ oledCall \in {"none", "init", "draw", "clear"}
  /\ script \in Seq(Items)
  /\ oledCall = "none" => script = <<>> /\ panel.command = <<>>
  /\ oledCall # "none" => SpiWired

\* The panel after k commands of oled_init: those with an argument are pending
\* until it has come.
OneArgument == SettingAt \cup {11}

InitDone(k) ==
  /\ panel.on = FALSE
  /\ k >= 12 => panel.horizontal
  /\ k >= 13 => panel.segRemap
  /\ k >= 14 => panel.comRemap
  /\ k \in OneArgument => panel.command = <<InitSequence[k].arg>>
  /\ k \notin OneArgument => panel.command = <<>>

\* The panel after k items of a drawing call: the window is set to the whole
\* memory and the pointers are at its start, then the bytes go in one by one.
Wanted(i) == IF oledCall = "draw" THEN frame_buffer[i] ELSE {}

Drawn(k) ==
  \A p \in PageSet, c \in ColSet : Place(p, c) < k - 7 => ram[p][c] = Wanted(Place(p, c))

DrawDone(k) ==
  /\ k = 1 => panel.command = <<"COLUMN_ADDRESS">>
  /\ k = 2 => panel.command = <<"COLUMN_ADDRESS", 0>>
  /\ k = 4 => panel.command = <<"PAGE_ADDRESS">>
  /\ k = 5 => panel.command = <<"PAGE_ADDRESS", 0>>
  /\ k \notin {1, 2, 4, 5} => panel.command = <<>>
  /\ k \in 3 .. 7 => panel.col = 0
  /\ k \in 6 .. 7 => panel.page = 0
  /\ k >= 7 => miso
  /\ k >= 7 /\ panel.on => Place(panel.page, panel.col) = k - 7 /\ Drawn(k)

ProgressInv ==
  /\ oledCall = "init" => \E k \in 0 .. 24 : Rest(script, InitSequence, k) /\ InitDone(k)
  /\ oledCall \in {"draw", "clear"} =>
       \E k \in 0 .. 6 + BufSize : Rest(script, DrawScript(oledCall), k) /\ DrawDone(k)

\* Which kind of command comes next.
LEMMA WhichCommand ==
  ASSUME NEW k \in 0 .. 24
  PROVE  /\ k + 1 \in OneArgument \/ k \in OneArgument \/ k + 1 \in PlainAt \/ k \in {0, 12, 13, 24}
         /\ k + 1 \in OneArgument => k \notin OneArgument
         /\ k + 1 \in PlainAt \/ k \in {0, 12, 13, 24} =>
              k \notin OneArgument /\ k + 1 \notin OneArgument
         /\ k + 1 \in OneArgument \/ k \in SettingAt \/ k + 1 \in PlainAt =>
              k + 1 \notin {12, 13, 14} /\ k # 24
BY DEF OneArgument, SettingAt, PlainAt

\* A command leaves everything else of the panel as it is.
OnlyCommand(c) ==
  /\ DOMAIN panel' = DOMAIN panel /\ panel'.command = c
  /\ panel'.cols = panel.cols /\ panel'.pages = panel.pages
  /\ panel'.col = panel.col /\ panel'.page = panel.page /\ panel'.on = panel.on
  /\ panel'.horizontal = panel.horizontal /\ panel'.segRemap = panel.segRemap
  /\ panel'.comRemap = panel.comRemap

LEMMA CommandKept ==
  ASSUME PanelInv, NEW c, panel' = [panel EXCEPT !.command = c]
  PROVE  OnlyCommand(c) /\ PanelInv'
<1>1. OnlyCommand(c)
  BY DEF PanelInv, OnlyCommand, Fields
<1>. QED  BY <1>1 DEF PanelInv, OnlyCommand

\* What such a command does to the progress of oled_init.
LEMMA ProgressKept ==
  ASSUME NEW k \in 0 .. 24, NEW c, InitDone(k), OnlyCommand(c), k + 1 \notin {12, 13, 14},
         k + 1 \in OneArgument => c = <<InitSequence[k + 1].arg>>,
         k + 1 \notin OneArgument => c = <<>>
  PROVE  InitDone(k + 1)'
<1>1. (k + 1 >= 12 => k >= 12) /\ (k + 1 >= 13 => k >= 13) /\ (k + 1 >= 14 => k >= 14)
  OBVIOUS
<1>. QED  BY <1>1 DEF InitDone, OnlyCommand

\* The first command of oled_init.
LEMMA SwitchedOff ==
  ASSUME panel.command = <<>>, ReceiveCommand("DISPLAY_OFF")
  PROVE  panel' = [panel EXCEPT !.on = FALSE, !.command = <<>>]
<1>1. Append(panel.command, "DISPLAY_OFF") = <<"DISPLAY_OFF">>
  OBVIOUS
<1>2. Arguments("DISPLAY_OFF") = 0
  BY DEF Arguments
<1>3. Execute(<<"DISPLAY_OFF">>) = [panel EXCEPT !.on = FALSE, !.command = <<>>]
  BY DEF Execute
<1>. QED  BY <1>1, <1>2, <1>3 DEF ReceiveCommand

\* One command of oled_init.
LEMMA InitCommand ==
  ASSUME NEW k \in 0 .. 24, PanelInv, InitDone(k), ReceiveCommand(InitSequence[k + 1].arg)
  PROVE  /\ PanelInv'
         /\ k < 24 => InitDone(k + 1)'
         /\ k = 24 => panel'.on = TRUE /\ panel'.command = <<>>
<1>. DEFINE b == InitSequence[k + 1].arg
            o == InitSequence[k].arg
<1>0. ReceiveCommand(b)
  OBVIOUS
<1>a. /\ k \in OneArgument => panel.command = <<o>>
      /\ k \notin OneArgument => panel.command = <<>>
  BY DEF InitDone
<1>b. /\ k + 1 \in SettingAt => b \in Settings
      /\ k \in SettingAt => o \in Settings
      /\ k + 1 \in PlainAt => b \in Plain
      /\ k + 1 = 11 => b = "ADDRESS_MODE"
  BY InitItems
<1>1. CASE k + 1 \in OneArgument
  <2>1. b \in Settings \cup {"ADDRESS_MODE"}
    BY <1>1, <1>b DEF OneArgument
  <2>2. Arguments(b) = 1
    BY <2>1 DEF Arguments, Settings
  <2>3. panel.command = <<>> /\ k + 1 \notin {12, 13, 14} /\ k # 24
    BY <1>1, <1>a, WhichCommand
  <2>. DEFINE c == <<b>>
  <2>. HIDE DEF b
  <2>4. panel' = [panel EXCEPT !.command = c]
    BY <1>0, <2>2, <2>3 DEF ReceiveCommand
  <2>5. c = <<InitSequence[k + 1].arg>>
    BY DEF b
  <2>. HIDE DEF c
  <2>6. OnlyCommand(c) /\ PanelInv'
    BY <2>4, CommandKept
  <2>. QED  BY <1>1, <2>3, <2>5, <2>6, ProgressKept
<1>2. CASE k \in SettingAt
  <2>1. o \in Settings
    BY <1>2, <1>b
  <2>2. Arguments(o) = 1
    BY <2>1 DEF Arguments, Settings
  <2>3. panel.command = <<o>> /\ k + 1 \notin OneArgument /\ k + 1 \notin {12, 13, 14} /\ k # 24
    BY <1>2, <1>a, WhichCommand DEF OneArgument
  <2>. DEFINE c == <<>>
  <2>. HIDE DEF b, o
  <2>4. panel' = [panel EXCEPT !.command = c]
    BY <1>0, <2>1, <2>2, <2>3 DEF ReceiveCommand, Execute, Settings
  <2>5. OnlyCommand(c) /\ PanelInv'
    BY <2>4, CommandKept
  <2>. QED  BY <2>3, <2>5, ProgressKept
<1>3. CASE k + 1 \in PlainAt
  <2>1. b \in Plain
    BY <1>3, <1>b
  <2>2. Arguments(b) = 0
    BY <2>1 DEF Arguments, Plain
  <2>3. panel.command = <<>> /\ k + 1 \notin OneArgument /\ k + 1 \notin {12, 13, 14} /\ k # 24
    BY <1>3, <1>a, WhichCommand
  <2>. DEFINE c == <<>>
  <2>. HIDE DEF b
  <2>4. Append(panel.command, b) = <<b>>
    BY <2>3
  <2>5. Execute(<<b>>) = [panel EXCEPT !.command = c]
    BY <2>1 DEF Execute, Plain
  <2>6. panel' = [panel EXCEPT !.command = c]
    BY <1>0, <2>2, <2>4, <2>5 DEF ReceiveCommand
  <2>7. OnlyCommand(c) /\ PanelInv'
    BY <2>6, CommandKept
  <2>. QED  BY <2>3, <2>7, ProgressKept
<1>4. CASE k = 11
  <2>1. panel.command = <<"ADDRESS_MODE">>
    BY <1>4, <1>a, InitItems DEF OneArgument
  <2>2. panel' = [panel EXCEPT !.horizontal = TRUE, !.command = <<>>]
    BY <2>1 DEF ReceiveCommand, Execute, Arguments
  <2>3. 12 \notin OneArgument
    BY DEF OneArgument, SettingAt
  <2>. QED  BY <1>4, <2>2, <2>3 DEF PanelInv, InitDone, Fields
<1>5. CASE k \in {0, 12, 13, 24}
  <2>1. panel.command = <<>> /\ k + 1 \notin OneArgument
    BY <1>5, <1>a, WhichCommand
  <2>2. CASE k = 0
    <3>1. ReceiveCommand("DISPLAY_OFF")
      BY <1>0, <2>2, InitItems
    <3>2. panel' = [panel EXCEPT !.on = FALSE, !.command = <<>>]
      BY <2>1, <3>1, SwitchedOff
    <3>. QED  BY <2>1, <2>2, <3>2 DEF PanelInv, InitDone, Fields
  <2>3. CASE k = 12
    <3>1. panel' = [panel EXCEPT !.segRemap = TRUE, !.command = <<>>]
      BY <2>1, <2>3, InitItems DEF ReceiveCommand, Execute, Arguments
    <3>. QED  BY <2>1, <2>3, <3>1 DEF PanelInv, InitDone, Fields
  <2>4. CASE k = 13
    <3>1. panel' = [panel EXCEPT !.comRemap = TRUE, !.command = <<>>]
      BY <2>1, <2>4, InitItems DEF ReceiveCommand, Execute, Arguments
    <3>. QED  BY <2>1, <2>4, <3>1 DEF PanelInv, InitDone, Fields
  <2>5. CASE k = 24
    <3>1. panel' = [panel EXCEPT !.on = TRUE, !.command = <<>>]
      BY <2>1, <2>5, InitItems DEF ReceiveCommand, Execute, Arguments
    <3>. QED  BY <2>5, <3>1 DEF PanelInv, InitDone, Fields
  <2>. QED  BY <1>5, <2>2, <2>3, <2>4, <2>5
<1>. QED  BY <1>1, <1>2, <1>3, <1>4, <1>5, WhichCommand DEF OneArgument

\* The last arguments of the two windows.
LEMMA ColumnWindow ==
  ASSUME panel.command = <<"COLUMN_ADDRESS", 0>>, ReceiveCommand(Cols - 1)
  PROVE  panel' = [panel EXCEPT !.cols = <<0, Cols - 1>>, !.col = 0, !.command = <<>>]
BY DEF ReceiveCommand, Arguments, Execute

LEMMA PageWindow ==
  ASSUME panel.command = <<"PAGE_ADDRESS", 0>>, ReceiveCommand(Pages - 1)
  PROVE  panel' = [panel EXCEPT !.pages = <<0, Pages - 1>>, !.page = 0, !.command = <<>>]
BY DEF ReceiveCommand, Arguments, Execute

\* One command of a drawing call's start.
LEMMA DrawCommand ==
  ASSUME NEW call, NEW k \in 0 .. 5, PanelInv, DrawDone(k),
         ReceiveCommand(DrawScript(call)[k + 1].arg)
  PROVE  /\ PanelInv' /\ panel'.on = panel.on
         /\ panel'.segRemap = panel.segRemap /\ panel'.comRemap = panel.comRemap
         /\ DrawDone(k + 1)'
<1>. USE Sizes DEF PanelInv, DrawDone, Fields, ColSet, PageSet
<1>1. CASE k = 0
  <2>1. DrawScript(call)[1].arg = "COLUMN_ADDRESS" /\ panel.command = <<>>
    BY <1>1, DrawItems DEF Command
  <2>2. panel' = [panel EXCEPT !.command = <<"COLUMN_ADDRESS">>]
    BY <1>1, <2>1 DEF ReceiveCommand, Arguments
  <2>. QED  BY <1>1, <2>2
<1>2. CASE k = 1
  <2>1. DrawScript(call)[2].arg = 0 /\ panel.command = <<"COLUMN_ADDRESS">>
    BY <1>2, DrawItems DEF Command
  <2>2. panel' = [panel EXCEPT !.command = <<"COLUMN_ADDRESS", 0>>]
    BY <1>2, <2>1 DEF ReceiveCommand, Arguments
  <2>. QED  BY <1>2, <2>2
<1>3. CASE k = 2
  <2>1. DrawScript(call)[3].arg = Cols - 1 /\ panel.command = <<"COLUMN_ADDRESS", 0>>
    BY <1>3, DrawItems DEF Command
  <2>2. panel' = [panel EXCEPT !.cols = <<0, Cols - 1>>, !.col = 0, !.command = <<>>]
    <3>1. ReceiveCommand(Cols - 1)
      BY <1>3, <2>1
    <3>. QED  BY <2>1, <3>1, ColumnWindow
  <2>. QED  BY <1>3, <2>2
<1>4. CASE k = 3
  <2>1. DrawScript(call)[4].arg = "PAGE_ADDRESS" /\ panel.command = <<>>
    BY <1>4, DrawItems DEF Command
  <2>2. panel' = [panel EXCEPT !.command = <<"PAGE_ADDRESS">>]
    BY <1>4, <2>1 DEF ReceiveCommand, Arguments
  <2>. QED  BY <1>4, <2>2
<1>5. CASE k = 4
  <2>1. DrawScript(call)[5].arg = 0 /\ panel.command = <<"PAGE_ADDRESS">>
    BY <1>5, DrawItems DEF Command
  <2>2. panel' = [panel EXCEPT !.command = <<"PAGE_ADDRESS", 0>>]
    BY <1>5, <2>1 DEF ReceiveCommand, Arguments
  <2>. QED  BY <1>5, <2>2
<1>6. CASE k = 5
  <2>1. DrawScript(call)[6].arg = Pages - 1 /\ panel.command = <<"PAGE_ADDRESS", 0>>
    BY <1>6, DrawItems DEF Command
  <2>2. panel' = [panel EXCEPT !.pages = <<0, Pages - 1>>, !.page = 0, !.command = <<>>]
    <3>1. ReceiveCommand(Pages - 1)
      BY <1>6, <2>1
    <3>. QED  BY <2>1, <3>1, PageWindow
  <2>. QED  BY <1>6, <2>2
<1>. QED  BY <1>1, <1>2, <1>3, <1>4, <1>5, <1>6

\* One byte of data: it goes where the pointers are, and they go one place on.
LEMMA DataByte ==
  ASSUME NEW k \in 7 .. 6 + BufSize, PanelInv, ram \in Memory, DrawDone(k),
         NEW b \in Byte, ReceiveData(b)
  PROVE  /\ PanelInv' /\ ram' \in Memory
         /\ panel'.on = panel.on /\ panel'.command = <<>>
         /\ \A p \in PageSet, c \in ColSet :
              ram'[p][c] = IF p = panel.page /\ c = panel.col THEN b ELSE ram[p][c]
         /\ k < 6 + BufSize /\ panel.on => Place(panel'.page, panel'.col) = k - 6
<1>. DEFINE p0 == panel.page
            c0 == panel.col
            endOfLine == c0 = Cols - 1
            nextPage == IF ~endOfLine \/ ~panel.horizontal THEN p0
                        ELSE IF p0 = Pages - 1 THEN 0 ELSE p0 + 1
            nextCol == IF endOfLine THEN 0 ELSE c0 + 1
<1>1. /\ p0 \in PageSet /\ c0 \in ColSet /\ p0 \in Nat /\ c0 \in Nat
      /\ p0 < Pages /\ c0 < Cols
  BY Sizes DEF PanelInv, PageSet, ColSet
<1>2. panel' = [panel EXCEPT !.page = nextPage, !.col = nextCol]
  BY DEF ReceiveData, PanelInv
<1>3. nextPage \in PageSet /\ nextCol \in ColSet
  BY <1>1, Sizes DEF PageSet, ColSet
<1>4. ram' = [ram EXCEPT ![p0][c0] = b]
  BY DEF ReceiveData
<1>5. panel.command = <<>>
  BY Sizes DEF DrawDone
<1>6. ASSUME k < 6 + BufSize, panel.on PROVE Place(nextPage, nextCol) = k - 6
  <2>1. panel.horizontal /\ c0 + p0 * Cols = k - 7
    BY <1>6 DEF PanelInv, DrawDone, Place
  <2>2. p0 * Cols \in Nat
    BY <1>1, Sizes
  <2>3. CASE ~endOfLine
    <3>1. nextPage = p0 /\ nextCol = c0 + 1
      BY <2>3
    <3>. QED  BY <1>1, <2>1, <2>2, <3>1 DEF Place
  <2>4. CASE endOfLine /\ p0 # Pages - 1
    <3>1. (p0 + 1) * Cols = p0 * Cols + Cols
      BY <1>1, Sizes
    <3>2. nextPage = p0 + 1 /\ nextCol = 0
      BY <2>1, <2>4
    <3>. QED  BY <1>1, <2>1, <2>2, <2>4, <3>1, <3>2, Sizes DEF Place
  <2>5. CASE endOfLine /\ p0 = Pages - 1
    <3>1. p0 * Cols + Cols = Pages * Cols
      <4>1. Pages = p0 + 1 /\ (p0 + 1) * Cols = p0 * Cols + Cols
        BY <1>1, <2>5, Sizes
      <4>. QED  BY <4>1
    <3>2. k - 7 = BufSize - 1
      BY <1>1, <2>1, <2>2, <2>5, <3>1, Sizes
    <3>. QED  BY <1>6, <3>2, Sizes
  <2>. QED  BY <2>3, <2>4, <2>5
<1>. HIDE DEF p0, c0, nextPage, nextCol
<1>7. ram' \in Memory
  <2>. HIDE DEF Byte
  <2>1. [ram[p0] EXCEPT ![c0] = b] \in [ColSet -> Byte]
    BY <1>1 DEF Memory
  <2>2. [ram EXCEPT ![p0] = [ram[p0] EXCEPT ![c0] = b]] \in Memory
    BY <1>1, <2>1 DEF Memory
  <2>3. ram' = [ram EXCEPT ![p0] = [ram[p0] EXCEPT ![c0] = b]]
    BY <1>1, <1>4 DEF Memory
  <2>. QED  BY <2>2, <2>3
<1>8. ASSUME NEW p \in PageSet, NEW c \in ColSet
      PROVE  ram'[p][c] = IF p = p0 /\ c = c0 THEN b ELSE ram[p][c]
  BY <1>1, <1>4 DEF Memory
<1>9. /\ DOMAIN panel' = Fields /\ panel'.page = nextPage /\ panel'.col = nextCol
      /\ panel'.cols = panel.cols /\ panel'.pages = panel.pages /\ panel'.on = panel.on
      /\ panel'.horizontal = panel.horizontal /\ panel'.segRemap = panel.segRemap
      /\ panel'.comRemap = panel.comRemap /\ panel'.command = panel.command
  BY <1>2 DEF PanelInv, Fields
<1>10. PanelInv'
  BY <1>3, <1>9 DEF PanelInv
<1>. QED  BY <1>5, <1>6, <1>7, <1>8, <1>9, <1>10 DEF p0, c0

\* What the screen is going to be, by places.
LEMMA TargetByPlaces ==
  /\ Glass!Target = {pixel \in Pixels :
       BitIn(pixel[1]) \in Wanted(Place(PageOf(pixel[1]), ColOf(pixel[2])))}
  /\ \A pixel \in Pixels : PageOf(pixel[1]) \in PageSet /\ ColOf(pixel[2]) \in ColSet
<1>1. Picture = PictureOf(frame_buffer)
  BY SeenByPlaces
<1>2. Glass!Target = IF oledCall = "draw" THEN Picture ELSE {}
  BY DEF Glass!Target
<1>3. \A pixel \in Pixels : PageOf(pixel[1]) \in PageSet /\ ColOf(pixel[2]) \in ColSet
  BY PixelPlace DEF Pixels
<1>. QED  BY <1>1, <1>2, <1>3 DEF Wanted, PictureOf

\* Nothing changes on the glass while commands are sent.
LEMMA SameLit ==
  ASSUME PanelInv, PanelInv', ram' = ram, panel'.on = panel.on
  PROVE  Lit' = Lit
BY SeenByPlaces DEF PanelInv

\* A byte that is wanted where it goes takes the glass towards the target.
LEMMA ByteShown ==
  ASSUME PanelInv, PanelInv', panel'.on = panel.on, ram \in Memory,
         NEW n, Place(panel.page, panel.col) = n,
         \A p \in PageSet, c \in ColSet :
           ram'[p][c] = IF p = panel.page /\ c = panel.col THEN Wanted(n) ELSE ram[p][c]
  PROVE  Lit' \subseteq Lit \cup Glass!Target /\ Lit \cap Glass!Target \subseteq Lit'
<1>1. CASE ~panel.on
  BY <1>1, SeenByPlaces
<1>2. CASE panel.on
  <2>1. Lit = LitOf(ram) /\ Lit' = LitOf(ram')
    BY <1>2, SeenByPlaces DEF PanelInv
  <2>2. ASSUME NEW pixel \in Pixels
        PROVE  LET p == PageOf(pixel[1])
                   c == ColOf(pixel[2])
               IN  \/ ram'[p][c] = ram[p][c]
                   \/ ram'[p][c] = Wanted(Place(p, c))
    BY TargetByPlaces
  <2>. QED  BY <2>1, <2>2, TargetByPlaces DEF LitOf
<1>. QED  BY <1>1, <1>2

----------------------------------------------------------------------------
(* The steps of the driver.                                                 *)

DInv == PinInv /\ PanelInv /\ CallInv /\ ProgressInv

\* A step inside a drawing call.
LEMMA DrawStep ==
  ASSUME DInv, OledStep, oledCall \in {"draw", "clear"}
  PROVE  PanelInv' /\ CallInv' /\ ProgressInv' /\ Glass!Refresh
<1>. DEFINE all == DrawScript(oledCall)
            now == Head(script)
<1>1. PICK k \in 0 .. 6 + BufSize : Rest(script, all, k) /\ DrawDone(k)
  BY DEF DInv, ProgressInv
<1>2. script # <<>> /\ script' = Tail(script) /\ script \in Seq(Items)
      /\ frame_buffer' = frame_buffer /\ panicked' = panicked /\ gpfsel' = gpfsel
  BY DEF OledStep, DInv, CallInv
<1>3. all \in Seq(Items) /\ Len(all) = 7 + BufSize
  BY DrawItems
<1>4. /\ now = all[k + 1] /\ script' \in Seq(Items) /\ Rest(script', all, k + 1)
      /\ script' = <<>> <=> k = 6 + BufSize
  <2>. HIDE DEF all
  <2>1. /\ now = all[k + 1] /\ script' \in Seq(Items) /\ Rest(script', all, k + 1)
        /\ script' = <<>> <=> k + 1 = Len(all)
    BY <1>1, <1>2, <1>3, RestStep
  <2>. QED  BY <1>3, <2>1, Sizes
<1>5. oledCall' = IF k = 6 + BufSize THEN "none" ELSE oledCall
  BY <1>2, <1>4 DEF OledStep
<1>6. /\ SpiWired /\ SpiWired' /\ PanelInv /\ frame_buffer \in Buffer /\ ram \in Memory
  BY <1>2 DEF DInv, CallInv, SpiWired, Function
<1>12. /\ miso' = CASE now.do = "command" -> FALSE
                    [] now.do = "data mode" -> TRUE
                    [] OTHER -> miso
       /\ now.do = "data mode" => ram' = ram /\ panel' = panel
       /\ now.do = "command" => ReceiveCommand(now.arg) /\ ram' = ram
       /\ now.do \notin {"command", "data mode"} /\ miso' =>
            ReceiveData(IF now.do = "data" THEN frame_buffer[now.arg] ELSE {})
  BY <1>6 DEF OledStep
<1>. HIDE DEF now
<1>7. Picture' = Picture
  BY <1>2, SeenByPlaces
<1>8. ASSUME PanelInv', ram' \in Memory, panel'.on = panel.on,
             panel'.command = <<>> \/ k # 6 + BufSize, Lit' \subseteq Lit \cup Glass!Target, Lit \cap Glass!Target \subseteq Lit',
             k # 6 + BufSize => DrawDone(k + 1)',
             k = 6 + BufSize => (panel.on => Lit' = Glass!Target)
      PROVE  PanelInv' /\ CallInv' /\ ProgressInv' /\ Glass!Refresh
  <2>1. CallInv'
    BY <1>2, <1>4, <1>5, <1>6, <1>8 DEF CallInv
  <2>2. ProgressInv'
    <3>1. CASE k = 6 + BufSize
      BY <1>5, <3>1 DEF ProgressInv
    <3>2. CASE k # 6 + BufSize
      <4>1. k + 1 \in 0 .. 6 + BufSize
        BY <3>2, Sizes
      <4>2. oledCall' = oledCall /\ Rest(script', DrawScript(oledCall), k + 1)
        BY <1>4, <1>5, <3>2
      <4>. QED  BY <1>8, <3>2, <4>1, <4>2 DEF ProgressInv
    <3>. QED  BY <3>1, <3>2
  <2>3. Glass!Refresh
    BY <1>2, <1>5, <1>7, <1>8 DEF Glass!Refresh
  <2>. QED  BY <1>8, <2>1, <2>2, <2>3
<1>9. CASE k \in 0 .. 5
  <2>1. now.do = "command"
    BY <1>4, <1>9, DrawItems DEF Command
  <2>2. ReceiveCommand(all[k + 1].arg) /\ ram' = ram
    BY <1>4, <1>12, <2>1
  <2>3. PanelInv' /\ panel'.on = panel.on /\ DrawDone(k + 1)'
    BY <1>1, <1>6, <1>9, <2>2, DrawCommand
  <2>4. Lit' = Lit
    BY <1>6, <2>2, <2>3, SameLit
  <2>5. k # 6 + BufSize
    BY <1>9, Sizes
  <2>. QED  BY <1>6, <1>8, <2>2, <2>3, <2>4, <2>5
<1>10. CASE k = 6
  <2>1. now = DataMode
    BY <1>4, <1>10, DrawItems
  <2>2. panel' = panel /\ ram' = ram /\ miso' = TRUE
    BY <1>12, <2>1 DEF DataMode
  <2>3. PanelInv'
    BY <1>6, <2>2 DEF PanelInv
  <2>4. Lit' = Lit
    BY <1>6, <2>2, <2>3, SameLit
  <2>5. k # 6 + BufSize
    BY <1>10, Sizes
  <2>6. DrawDone(7)'
    <3>1. panel.command = <<>> /\ panel.col = 0 /\ panel.page = 0
      BY <1>1, <1>10 DEF DrawDone
    <3>2. Place(0, 0) = 0
      BY Sizes DEF Place
    <3>3. \A p \in PageSet, c \in ColSet : ~(Place(p, c) < 0)
      BY PlaceInBuffer, Sizes
    <3>. QED  BY <2>2, <3>1, <3>2, <3>3 DEF DrawDone, Drawn
  <2>. QED  BY <1>6, <1>8, <1>10, <2>2, <2>3, <2>4, <2>5, <2>6
<1>11. CASE k \in 7 .. 6 + BufSize
  <2>. DEFINE n == k - 7
  <2>1. now = IF oledCall = "draw" THEN Pixels8(n) ELSE Dark
    BY <1>4, <1>11, DrawItems
  <2>2. n \in 0 .. BufSize - 1 /\ k + 1 - 7 = n + 1
    BY <1>11, Sizes
  <2>3. Wanted(n) \in Byte
    <3>1. frame_buffer[n] \in Byte
      BY <1>6, <2>2 DEF Buffer
    <3>2. {} \in Byte
      BY DEF Byte
    <3>. QED  BY <3>1, <3>2 DEF Wanted
  <2>4. ReceiveData(Wanted(n)) /\ miso'
    <3>1. miso
      BY <1>1, <1>11 DEF DrawDone
    <3>2. now.do \notin {"command", "data mode"}
      BY <2>1 DEF Pixels8, Dark
    <3>3. miso' = miso
      BY <1>12, <3>2
    <3>4. ReceiveData(IF now.do = "data" THEN frame_buffer[now.arg] ELSE {})
      <4>1. miso'
        BY <3>1, <3>3
      <4>. QED  BY <1>12, <3>2, <4>1
    <3>5. Wanted(n) = IF now.do = "data" THEN frame_buffer[now.arg] ELSE {}
      BY <2>1 DEF Wanted, Pixels8, Dark
    <3>. QED  BY <3>1, <3>3, <3>4, <3>5
  <2>. HIDE DEF all
  <2>5. /\ PanelInv' /\ ram' \in Memory
        /\ panel'.on = panel.on /\ panel'.command = <<>>
        /\ \A p \in PageSet, c \in ColSet :
             ram'[p][c] = IF p = panel.page /\ c = panel.col THEN Wanted(n) ELSE ram[p][c]
        /\ k < 6 + BufSize /\ panel.on => Place(panel'.page, panel'.col) = k - 6
    BY <1>1, <1>6, <1>11, <2>3, <2>4, DataByte
  <2>. HIDE DEF n
  <2>6. ASSUME panel.on
        PROVE  /\ Lit' \subseteq Lit \cup Glass!Target /\ Lit \cap Glass!Target \subseteq Lit'
               /\ \A p \in PageSet, c \in ColSet :
                    Place(p, c) < n + 1 => ram'[p][c] = Wanted(Place(p, c))
    <3>1. Place(panel.page, panel.col) = n /\ Drawn(k)
      BY <1>1, <1>11, <2>6 DEF DrawDone, n
    <3>2. Lit' \subseteq Lit \cup Glass!Target /\ Lit \cap Glass!Target \subseteq Lit'
      BY <1>6, <2>5, <3>1, ByteShown
    <3>3. ASSUME NEW p \in PageSet, NEW c \in ColSet, Place(p, c) < n + 1
          PROVE  ram'[p][c] = Wanted(Place(p, c))
      <4>1. Place(p, c) \in Nat /\ n \in Nat
        BY <2>2, PlaceInBuffer
      <4>2. CASE Place(p, c) = n
        <5>1. p = panel.page /\ c = panel.col
          BY <1>6, <3>1, <4>2, PlacesApart DEF PanelInv
        <5>. QED  BY <2>5, <4>2, <5>1
      <4>3. CASE Place(p, c) < n
        <5>1. ram[p][c] = Wanted(Place(p, c))
          BY <3>1, <4>3 DEF Drawn, n
        <5>2. ~(p = panel.page /\ c = panel.col)
          BY <3>1, <4>1, <4>3
        <5>. QED  BY <2>5, <5>1, <5>2
      <4>. QED  BY <3>3, <4>1, <4>2, <4>3
    <3>. QED  BY <3>2, <3>3
  <2>7. ~panel.on => Lit = {} /\ Lit' = {}
    BY <2>5, SeenByPlaces
  <2>8. Lit' \subseteq Lit \cup Glass!Target /\ Lit \cap Glass!Target \subseteq Lit'
    BY <2>6, <2>7
  <2>9. ASSUME k # 6 + BufSize PROVE DrawDone(k + 1)'
    <3>1. oledCall' = oledCall /\ k + 1 - 7 = n + 1 /\ k - 6 = n + 1
      BY <1>5, <1>11, <2>2, <2>9 DEF n
    <3>2. \A i : Wanted(i)' = Wanted(i)
      BY <1>2, <3>1 DEF Wanted
    <3>3. panel'.on => Drawn(k + 1)'
      BY <2>5, <2>6, <3>1, <3>2 DEF Drawn
    <3>4. k < 6 + BufSize /\ k + 1 >= 8
      BY <1>11, <2>9, Sizes
    <3>5. panel'.on => Place(panel'.page, panel'.col) = k + 1 - 7
      BY <2>5, <3>1, <3>4
    <3>. QED  BY <1>11, <2>4, <2>5, <3>3, <3>4, <3>5 DEF DrawDone
  <2>10. ASSUME k = 6 + BufSize, panel.on PROVE Lit' = Glass!Target
    <3>1. n + 1 = BufSize
      BY <1>11, <2>10, Sizes DEF n
    <3>2. \A p \in PageSet, c \in ColSet : ram'[p][c] = Wanted(Place(p, c))
      <4>1. \A p \in PageSet, c \in ColSet : Place(p, c) < n + 1
        BY <3>1, PlaceInBuffer, Sizes
      <4>. QED  BY <2>6, <2>10, <4>1
    <3>3. Lit' = LitOf(ram')
      BY <2>5, <2>10, SeenByPlaces DEF PanelInv
    <3>. QED  BY <3>2, <3>3, TargetByPlaces DEF LitOf
  <2>. QED  BY <1>8, <2>5, <2>8, <2>9, <2>10
<1>. QED  BY <1>1, <1>9, <1>10, <1>11, Sizes

\* A step inside oled_init.
LEMMA InitStep ==
  ASSUME DInv, OledStep, oledCall = "init"
  PROVE  PanelInv' /\ CallInv' /\ ProgressInv' /\ [Glass!Next \/ ClearsPart]_Glass!screenVars
<1>. DEFINE all == InitSequence
            now == Head(script)
<1>1. PICK k \in 0 .. 24 : Rest(script, InitSequence, k) /\ InitDone(k)
  BY DEF DInv, ProgressInv
<1>2. script # <<>> /\ script' = Tail(script) /\ script \in Seq(Items)
      /\ frame_buffer' = frame_buffer /\ panicked' = panicked /\ gpfsel' = gpfsel
  BY DEF OledStep, DInv, CallInv
<1>3. InitSequence \in Seq(Items) /\ Len(InitSequence) = 25
  BY InitItems
<1>4. /\ now = InitSequence[k + 1] /\ script' \in Seq(Items)
      /\ Rest(script', InitSequence, k + 1) /\ (script' = <<>> <=> k = 24)
  <2>1. Head(script) = InitSequence[k + 1]
    BY <1>1, <1>2, <1>3, RestStep
  <2>2. Tail(script) \in Seq(Items) /\ Rest(Tail(script), InitSequence, k + 1)
    BY <1>1, <1>2, <1>3, RestStep
  <2>3. Tail(script) = <<>> <=> k + 1 = Len(InitSequence)
    BY <1>1, <1>2, <1>3, RestStep
  <2>4. k + 1 = 25 <=> k = 24
    OBVIOUS
  <2>. QED  BY <1>2, <1>3, <2>1, <2>2, <2>3, <2>4
<1>5. oledCall' = IF k = 24 THEN "none" ELSE "init"
  BY <1>2, <1>4 DEF OledStep
<1>6. SpiWired /\ SpiWired' /\ PanelInv /\ frame_buffer \in Buffer /\ ram \in Memory
  BY <1>2 DEF DInv, CallInv, SpiWired, Function
<1>12. /\ miso' = CASE now.do = "command" -> FALSE
                    [] now.do = "data mode" -> TRUE
                    [] OTHER -> miso
       /\ now.do = "data mode" => ram' = ram /\ panel' = panel
       /\ now.do = "command" => ReceiveCommand(now.arg) /\ ram' = ram
       /\ now.do \notin {"command", "data mode"} /\ miso' =>
            ReceiveData(IF now.do = "data" THEN frame_buffer[now.arg] ELSE {})
  BY <1>6 DEF OledStep
<1>. HIDE DEF now
<1>7. ReceiveCommand(InitSequence[k + 1].arg) /\ ram' = ram
  <2>1. now.do = "command"
    <3>1. k + 1 \in 1 .. 25
      OBVIOUS
    <3>. QED  BY <1>4, <3>1, InitItems
  <2>. QED  BY <1>4, <1>12, <2>1
<1>8. /\ PanelInv'
      /\ k < 24 => InitDone(k + 1)'
      /\ k = 24 => panel'.on = TRUE /\ panel'.command = <<>>
  BY <1>1, <1>6, <1>7, InitCommand
<1>9. CallInv'
  BY <1>2, <1>4, <1>5, <1>6, <1>7, <1>8 DEF CallInv
<1>10. ProgressInv'
  <2>1. CASE k = 24
    BY <1>5, <2>1 DEF ProgressInv
  <2>2. CASE k < 24
    <3>1. k + 1 \in 0 .. 24 /\ oledCall' = "init"
      BY <1>5, <2>2
    <3>. QED  BY <1>4, <1>8, <2>2, <3>1 DEF ProgressInv
  <2>. QED  BY <2>1, <2>2
<1>11. [Glass!Next \/ ClearsPart]_Glass!screenVars
  <2>1. Picture' = Picture
    BY <1>2, SeenByPlaces
  <2>2. CASE k = 24
    <3>1. panel'.on = TRUE
      BY <1>8, <2>2
    <3>2. Lit' = LitOf(ram')
      BY <1>8, <2>2, SeenByPlaces DEF PanelInv
    <3>3. Lit' \subseteq Glass!Pixels
      BY <3>2 DEF LitOf, Pixels, Glass!Pixels
    <3>4. Glass!EndInit
      BY <1>2, <1>5, <2>1, <2>2, <3>1, <3>3 DEF Glass!EndInit
    <3>. QED  BY <3>4 DEF Glass!Next
  <2>3. CASE k < 24
    <3>1. panel.on = FALSE /\ panel'.on = FALSE
      BY <1>1, <1>8, <2>3 DEF InitDone
    <3>2. Lit = {} /\ Lit' = {}
      BY <3>1, SeenByPlaces
    <3>3. oledCall' = oledCall /\ panel'.on = panel.on /\ Lit' = Lit
      <4>1. k # 24
        BY <2>3
      <4>. QED  BY <1>5, <3>1, <3>2, <4>1
    <3>. QED  BY <1>2, <2>1, <3>3 DEF Glass!screenVars
  <2>. QED  BY <2>2, <2>3
<1>. QED  BY <1>8, <1>9, <1>10, <1>11

----------------------------------------------------------------------------
(* The calls.                                                               *)

\* Setting a bit of the buffer sets one pixel of the picture, and no other.
LEMMA PixelEdit ==
  ASSUME frame_buffer \in Buffer, NEW r \in 0 .. Rows - 1, NEW c \in 0 .. Cols - 1,
         NEW lit \in BOOLEAN,
         frame_buffer' = [frame_buffer EXCEPT ![BitOf(r, c)[1]] =
                            IF lit THEN @ \cup {BitOf(r, c)[2]} ELSE @ \ {BitOf(r, c)[2]}]
  PROVE  /\ frame_buffer' \in Buffer
         /\ <<r, c>> \in Glass!Pixels
         /\ Picture' = IF lit THEN Picture \cup {<<r, c>>} ELSE Picture \ {<<r, c>>}
<1>. DEFINE n == Place(PageOf(r), ColOf(c))
            byte == IF lit THEN frame_buffer[n] \cup {BitIn(r)} ELSE frame_buffer[n] \ {BitIn(r)}
<1>1. /\ PageOf(r) \in PageSet /\ ColOf(c) \in ColSet /\ BitIn(r) \in 0 .. Cell - 1
      /\ BitOf(r, c) = <<n, BitIn(r)>>
  BY PixelPlace
<1>2. n \in 0 .. BufSize - 1
  BY <1>1, PlaceInBuffer
<1>3. frame_buffer' = [frame_buffer EXCEPT ![n] = byte]
  BY <1>1
<1>4. byte \in Byte
  <2>1. frame_buffer[n] \in Byte
    BY <1>2 DEF Buffer
  <2>. HIDE DEF n
  <2>. QED  BY <1>1, <2>1 DEF Byte
<1>5. frame_buffer' \in Buffer
  <2>. HIDE DEF byte, n, Byte
  <2>. QED  BY <1>2, <1>3, <1>4 DEF Buffer
<1>6. ASSUME NEW q \in 0 .. Rows - 1, NEW e \in 0 .. Cols - 1
      PROVE  BitIn(q) \in frame_buffer'[Place(PageOf(q), ColOf(e))] <=>
               IF q = r /\ e = c THEN lit
               ELSE BitIn(q) \in frame_buffer[Place(PageOf(q), ColOf(e))]
  <2>. DEFINE m == Place(PageOf(q), ColOf(e))
  <2>1. m \in 0 .. BufSize - 1 /\ BitOf(q, e) = <<m, BitIn(q)>>
    BY PixelPlace, PlaceInBuffer
  <2>2. frame_buffer'[m] = IF m = n THEN byte ELSE frame_buffer[m]
    <3>. HIDE DEF m, n, byte
    <3>. QED  BY <1>2, <1>3, <2>1 DEF Buffer
  <2>3. CASE q = r /\ e = c
    <3>1. m = n /\ BitIn(q) = BitIn(r)
      BY <2>3
    <3>2. BitIn(q) \in frame_buffer'[m] <=> lit
      <4>. HIDE DEF m, n
      <4>. QED  BY <2>2, <3>1
    <3>. QED  BY <2>3, <3>2
  <2>4. CASE ~(q = r /\ e = c) /\ m = n
    <3>1. BitIn(q) # BitIn(r)
      <4>1. SUFFICES ASSUME BitIn(q) = BitIn(r) PROVE FALSE
        OBVIOUS
      <4>2. BitOf(q, e) = BitOf(r, c)
        BY <1>1, <2>1, <2>4, <4>1
      <4>. QED  BY <2>4, <4>2, PixelsApart
    <3>. HIDE DEF m, n
    <3>. QED  BY <2>2, <2>4, <3>1 DEF m
  <2>5. CASE ~(q = r /\ e = c) /\ m # n
    BY <2>2, <2>5
  <2>. QED  BY <2>3, <2>4, <2>5
<1>. HIDE DEF n, byte
<1>7. Picture = PictureOf(frame_buffer) /\ Picture' = PictureOf(frame_buffer')
  BY SeenByPlaces
<1>8. \A pixel \in Pixels :
        /\ pixel[1] \in 0 .. Rows - 1 /\ pixel[2] \in 0 .. Cols - 1
        /\ pixel = <<r, c>> <=> pixel[1] = r /\ pixel[2] = c
  BY DEF Pixels
<1>9. <<r, c>> \in Pixels /\ <<r, c>> \in Glass!Pixels
  BY DEF Pixels, Glass!Pixels
<1>10. \A pixel \in Pixels : pixel \in Picture' <=>
         IF pixel = <<r, c>> THEN lit ELSE pixel \in Picture
  BY <1>6, <1>7, <1>8 DEF PictureOf
<1>11. Picture \subseteq Pixels /\ Picture' \subseteq Pixels
  BY <1>7 DEF PictureOf
<1>. QED  BY <1>5, <1>9, <1>10, <1>11

\* Clearing OLED_COLS bytes lights no pixel.
LEMMA PartCleared ==
  ASSUME frame_buffer \in Buffer,
         frame_buffer' = [i \in 0 .. BufSize - 1 |-> IF i < Cols THEN {} ELSE frame_buffer[i]]
  PROVE  frame_buffer' \in Buffer /\ Picture' \subseteq Picture
<1>1. frame_buffer' \in Buffer
  <2>1. {} \in Byte
    BY DEF Byte
  <2>. HIDE DEF Byte
  <2>. QED  BY <2>1 DEF Buffer
<1>2. \A pixel \in Pixels : Place(PageOf(pixel[1]), ColOf(pixel[2])) \in 0 .. BufSize - 1
  BY PixelPlace, PlaceInBuffer DEF Pixels
<1>3. \A i \in 0 .. BufSize - 1 : frame_buffer'[i] \subseteq frame_buffer[i]
  OBVIOUS
<1>4. PictureOf(frame_buffer') \subseteq PictureOf(frame_buffer)
  BY <1>2, <1>3 DEF PictureOf
<1>. QED  BY <1>1, <1>4, SeenByPlaces

\* What does not touch panel and memory changes nothing on the glass.
LEMMA SamePanel ==
  ASSUME PanelInv, panel' = panel, ram' = ram
  PROVE  PanelInv' /\ Lit' = Lit
<1>1. PanelInv'
  BY DEF PanelInv
<1>. QED  BY <1>1, SameLit

LEMMA DisplayCallStep ==
  ASSUME DInv, PinInv', CallDisplay
  PROVE  PanelInv' /\ CallInv' /\ ProgressInv' /\ (Glass!Next \/ ClearsPart)
<1>1. oledCall = "none" /\ panicked = panicked /\ ~panicked /\ OledFree
  BY DEF CallDisplay, Free, OledFree
<1>2. /\ script = <<>> /\ script \in Seq(Items) /\ panel.command = <<>>
      /\ frame_buffer \in Buffer /\ ram \in Memory /\ PanelInv
  BY <1>1 DEF DInv, CallInv
<1>3. CASE \E r \in 0 .. Rows, c \in 0 .. Cols, lit \in BOOLEAN : Pixel(r, c, lit)
  <2>1. PICK r \in 0 .. Rows, c \in 0 .. Cols, lit \in BOOLEAN : Pixel(r, c, lit)
    BY <1>3
  <2>2. /\ script' = script /\ oledCall' = oledCall /\ ram' = ram /\ panel' = panel
        /\ gpfsel' = gpfsel
    BY <2>1 DEF Pixel
  <2>3. PanelInv' /\ Lit' = Lit
    BY <1>2, <2>2, SamePanel
  <2>4. CASE c >= Cols \/ r >= Rows
    <3>1. panicked' = TRUE /\ frame_buffer' = frame_buffer
      BY <2>1, <2>4 DEF Pixel
    <3>2. Picture' = Picture
      BY <3>1, SeenByPlaces
    <3>3. Glass!OffScreen
      BY <1>1, <2>2, <2>3, <3>1, <3>2 DEF Glass!OffScreen
    <3>. QED  BY <1>1, <1>2, <2>2, <2>3, <3>1, <3>3 DEF CallInv, ProgressInv, Glass!Next
  <2>5. CASE ~(c >= Cols \/ r >= Rows)
    <3>1. r \in 0 .. Rows - 1 /\ c \in 0 .. Cols - 1
      BY <2>5, Sizes
    <3>2. /\ panicked' = panicked
          /\ frame_buffer' = [frame_buffer EXCEPT ![BitOf(r, c)[1]] =
               IF lit THEN @ \cup {BitOf(r, c)[2]} ELSE @ \ {BitOf(r, c)[2]}]
      BY <2>1, <2>5 DEF Pixel
    <3>3. /\ frame_buffer' \in Buffer /\ <<r, c>> \in Glass!Pixels
          /\ Picture' = IF lit THEN Picture \cup {<<r, c>>} ELSE Picture \ {<<r, c>>}
      BY <1>2, <3>1, <3>2, PixelEdit
    <3>4. \E pixel \in Glass!Pixels : Glass!Set(pixel) \/ Glass!Clear(pixel)
      BY <3>3 DEF Glass!Set, Glass!Clear
    <3>5. Glass!Edit
      BY <1>1, <2>2, <2>3, <3>2, <3>4 DEF Glass!Edit
    <3>. QED  BY <1>1, <1>2, <2>2, <2>3, <3>3, <3>5 DEF CallInv, ProgressInv, Glass!Next
  <2>. QED  BY <2>4, <2>5
<1>4. CASE oled_buf_clr
  <2>1. /\ script' = script /\ oledCall' = oledCall /\ ram' = ram /\ panel' = panel
        /\ gpfsel' = gpfsel /\ panicked' = panicked
    BY <1>4 DEF oled_buf_clr
  <2>2. PanelInv' /\ Lit' = Lit
    BY <1>2, <2>1, SamePanel
  <2>3. frame_buffer' \in Buffer /\ Picture' \subseteq Picture
    BY <1>2, <1>4, PartCleared DEF oled_buf_clr
  <2>. QED  BY <1>1, <1>2, <1>4, <2>1, <2>2, <2>3 DEF CallInv, ProgressInv, ClearsPart
<1>5. ASSUME panel' = AfterReset
      PROVE  PanelInv' /\ panel'.on = FALSE /\ Lit' = {} /\ panel'.command = <<>>
  <2>1. PanelInv' /\ panel'.on = FALSE /\ panel'.command = <<>>
    BY <1>5, Sizes DEF PanelInv, AfterReset, Fields, ColSet, PageSet
  <2>. QED  BY <2>1, SeenByPlaces
<1>6. CASE oled_reset
  <2>1. /\ script' = script /\ oledCall' = oledCall /\ ram' = ram /\ panel' = AfterReset
        /\ frame_buffer' = frame_buffer /\ panicked' = panicked
    BY <1>6 DEF oled_reset
  <2>2. Picture' = Picture
    BY <2>1, SeenByPlaces
  <2>3. Glass!Reset
    BY <1>1, <1>5, <2>1, <2>2 DEF Glass!Reset
  <2>. QED  BY <1>1, <1>2, <1>5, <2>1, <2>3 DEF CallInv, ProgressInv, Glass!Next
<1>7. CASE oled_init
  <2>1. /\ script' = InitSequence /\ oledCall' = "init" /\ ram' = ram /\ panel' = AfterReset
        /\ frame_buffer' = frame_buffer /\ panicked' = panicked
    BY <1>7 DEF oled_init
  <2>2. Picture' = Picture
    BY <2>1, SeenByPlaces
  <2>3. Glass!BeginInit
    BY <1>1, <1>5, <2>1, <2>2 DEF Glass!BeginInit
  <2>4. SpiWired'
    BY <2>1 DEF PinInv, PinsKept, CallDisplay
  <2>5. CallInv'
    BY <1>2, <2>1, <2>4, InitItems DEF CallInv
  <2>6. ProgressInv'
    <3>1. InitDone(0)'
      <4>1. 0 \notin OneArgument
        BY DEF OneArgument, SettingAt
      <4>2. panel'.on = FALSE /\ panel'.command = <<>>
        BY <1>5, <2>1
      <4>. QED  BY <4>1, <4>2 DEF InitDone
    <3>2. Rest(script', InitSequence, 0)
      BY <2>1, InitItems, RestWhole
    <3>. QED  BY <2>1, <3>1, <3>2 DEF ProgressInv
  <2>. QED  BY <1>5, <2>1, <2>3, <2>5, <2>6 DEF Glass!Next
<1>8. CASE SpiWired /\ (oled_buf_draw \/ oled_clear_screen)
  <2>1. /\ oledCall' \in {"draw", "clear"} /\ ram' = ram /\ panel' = panel /\ miso' = miso
        /\ frame_buffer' = frame_buffer /\ panicked' = panicked /\ gpfsel' = gpfsel
    BY <1>8 DEF oled_buf_draw, oled_clear_screen
  <2>2. script' = DrawScript(oledCall')
    <3>1. CASE oled_buf_draw
      BY <3>1 DEF oled_buf_draw, DrawScript
    <3>2. CASE oled_clear_screen
      BY <3>2 DEF oled_clear_screen, DrawScript
    <3>. QED  BY <1>8, <3>1, <3>2
  <2>3. PanelInv' /\ Lit' = Lit
    BY <1>2, <2>1, SamePanel
  <2>4. Picture' = Picture
    BY <2>1, SeenByPlaces
  <2>5. Glass!Begin
    BY <1>1, <2>1, <2>3, <2>4 DEF Glass!Begin
  <2>6. CallInv'
    <3>1. SpiWired'
      BY <1>8, <2>1 DEF SpiWired, Function
    <3>. QED  BY <1>2, <2>1, <2>2, <3>1, DrawItems DEF CallInv
  <2>7. ProgressInv'
    <3>1. DrawDone(0)'
      BY <1>2, <2>1 DEF DrawDone
    <3>2. Rest(script', DrawScript(oledCall'), 0)
      BY <2>2, DrawItems, RestWhole
    <3>3. 0 \in 0 .. 6 + BufSize
      BY Sizes
    <3>. QED  BY <2>1, <3>1, <3>2, <3>3 DEF ProgressInv
  <2>. QED  BY <2>3, <2>5, <2>6, <2>7 DEF Glass!Next
<1>. QED  BY <1>3, <1>4, <1>6, <1>7, <1>8 DEF CallDisplay, DisplayCall

\* What leaves the driver alone.
LEMMA OtherStep ==
  ASSUME DInv, displayVars' = displayVars, gpfsel' = gpfsel \/ oledCall = "none"
  PROVE  PanelInv' /\ CallInv' /\ ProgressInv' /\ Glass!screenVars' = Glass!screenVars
<1>1. /\ frame_buffer' = frame_buffer /\ script' = script /\ oledCall' = oledCall /\ miso' = miso
      /\ panicked' = panicked /\ ram' = ram /\ panel' = panel
  BY DEF displayVars
<1>2. PanelInv' /\ Lit' = Lit
  BY <1>1, SamePanel DEF DInv
<1>3. Picture' = Picture
  BY <1>1, SeenByPlaces
<1>4. CallInv'
  <2>1. oledCall # "none" => SpiWired'
    BY DEF DInv, CallInv, SpiWired, Function
  <2>. QED  BY <1>1, <2>1 DEF DInv, CallInv
<1>5. ProgressInv'
  <2>1. \A k : InitDone(k)' <=> InitDone(k)
    BY <1>1 DEF InitDone
  <2>2. \A k : DrawDone(k)' <=> DrawDone(k)
    BY <1>1 DEF DrawDone, Drawn, Wanted
  <2>. QED  BY <1>1, <2>1, <2>2 DEF DInv, ProgressInv
<1>. QED  BY <1>1, <1>2, <1>3, <1>4, <1>5 DEF Glass!screenVars

LEMMA DriverStep == DInv /\ [Next]_allVars => DInv' /\ [Glass!Next \/ ClearsPart]_Glass!screenVars
<1>. SUFFICES ASSUME DInv, [Next]_allVars PROVE DInv' /\ [Glass!Next \/ ClearsPart]_Glass!screenVars
  OBVIOUS
<1>1. PinInv'
  BY PinsStep DEF DInv
<1>2. PanelInv' /\ CallInv' /\ ProgressInv' /\ [Glass!Next \/ ClearsPart]_Glass!screenVars
  <2>1. CASE CallDisplay
    BY <1>1, <2>1, DisplayCallStep
  <2>2. CASE CallAdc
    BY <2>2, OtherStep DEF CallAdc, Free
  <2>3. CASE OledStep
    <3>1. oledCall \in {"init", "draw", "clear"}
      BY <2>3 DEF OledStep, DInv, CallInv
    <3>. QED  BY <2>3, <3>1, InitStep, DrawStep DEF Glass!Next
  <2>4. CASE UNCHANGED allVars
    BY <2>4, OtherStep DEF allVars
  <2>5. CASE (AdcStep \/ AdcHardware) /\ UNCHANGED <<displayVars, oledReady, adcReady>>
    <3>1. gpfsel' = gpfsel
      BY <2>5 DEF AdcStep, AdcHardware, StartConfig, StartPointer, StartRead, StartTransfer,
        EndConfig, EndPointer, EndWrite, EndRead, TransferDone, ConversionDone
    <3>. QED  BY <2>5, <3>1, OtherStep
  <2>. QED  BY <2>1, <2>2, <2>3, <2>4, <2>5 DEF Next, Hang
<1>. QED  BY <1>1, <1>2 DEF DInv

LEMMA DriverInit == Init => DInv /\ Glass!Init
<1>. SUFFICES ASSUME Init PROVE DInv /\ Glass!Init
  OBVIOUS
<1>1. /\ frame_buffer = [i \in 0 .. BufSize - 1 |-> {}] /\ script = <<>> /\ oledCall = "none"
      /\ panicked = FALSE /\ panel = AfterReset
  BY DEF Init, DisplayInit
<1>2. PICK b \in {{}, 0 .. Cell - 1} :
        ram = [page \in 0 .. Pages - 1 |-> [col \in 0 .. Cols - 1 |-> b]]
  BY DEF Init, DisplayInit
<1>3. b \in Byte /\ {} \in Byte
  BY DEF Byte
<1>4. frame_buffer \in Buffer /\ ram \in Memory
  <2>. HIDE DEF Byte
  <2>. QED  BY <1>1, <1>2, <1>3 DEF Buffer, Memory, PageSet, ColSet
<1>5. PanelInv /\ panel.on = FALSE /\ panel.command = <<>>
  BY <1>1, Sizes DEF PanelInv, AfterReset, Fields, ColSet, PageSet
<1>6. Lit = {}
  BY <1>5, SeenByPlaces
<1>7. Picture = {}
  <2>1. ASSUME NEW pixel \in Pixels
        PROVE  Place(PageOf(pixel[1]), ColOf(pixel[2])) \in 0 .. BufSize - 1
    BY TargetByPlaces, PlaceInBuffer
  <2>. QED  BY <1>1, <2>1, SeenByPlaces DEF PictureOf
<1>8. CallInv
  BY <1>1, <1>4, <1>5 DEF CallInv
<1>9. ProgressInv
  BY <1>1 DEF ProgressInv
<1>. QED  BY <1>1, <1>5, <1>6, <1>7, <1>8, <1>9, PinsInit DEF DInv, Glass!Init

\* For every size of the panel, the driver and the panel together do what Screen
\* says, but for oled_buf_clr: every byte sent takes the glass towards the client's
\* picture, and the call that draws returns only when the glass shows it, the
\* right way round, whatever calls, resets and uses of the ADC came before.
THEOREM DriverShowsPicture == Spec => ImplementsScreenButClear
<1>1. Init => DInv /\ Glass!Init
  BY DriverInit
<1>2. DInv /\ [Next]_allVars => DInv' /\ [Glass!Next \/ ClearsPart]_Glass!screenVars
  BY DriverStep
<1>. QED  BY <1>1, <1>2, PTL DEF Spec, ImplementsScreenButClear

=============================================================================
