------------------------------ MODULE Display ------------------------------
(***************************************************************************)
(* The OLED driver (kernel/src/screen.c) over SPI (kernel/src/spi.c), with  *)
(* the SSD1306 panel at the other end, byte by byte: a byte the panel takes *)
(* for a command, or an argument out of step, spoils all that follow.       *)
(*                                                                          *)
(* A call of the driver is its script: the commands and the data it sends.  *)
(* A byte of pixels is the set of its 1 bits.                               *)
(***************************************************************************)
EXTENDS Gpio, Sequences

CONSTANTS
  Cols,   \* OLED_COLS: 128
  Pages,  \* OLED_MAX_PAGE + 1: 4
  Cell    \* OLED_CELL_SIZE: 8

ASSUME DisplayAssumption == Cols \in Nat \ {0} /\ Pages \in Nat \ {0} /\ Cell \in Nat \ {0}

Rows    == Pages * Cell
BufSize == Pages * Cols
Byte    == SUBSET (0 .. Cell - 1)

\* The pins (spi.h); MISO drives the panel's data/command input.
CE1_N == 7
CE0_N == 8
MISO  == 9
MOSI  == 10
SCLK  == 11
RESET == 16

VARIABLES
  frame_buffer,   \* _oled_frame_buffer
  script,         \* what the call in progress has still to do
  oledCall,       \* which call that is
  miso,           \* the level of pin MISO: TRUE for data
  panicked,       \* panic() was called: the program hangs
  ram,            \* the panel's memory
  panel           \* the panel's settings and address pointers

displayVars == <<frame_buffer, script, oledCall, miso, panicked, ram, panel>>

\* The panel after a reset: off, one page at a time, nothing remapped.
AfterReset ==
  [on |-> FALSE, horizontal |-> FALSE, segRemap |-> FALSE, comRemap |-> FALSE,
   cols |-> <<0, Cols - 1>>, pages |-> <<0, Pages - 1>>, col |-> 0, page |-> 0,
   command |-> <<>>]

\* Its memory holds anything at power-on: all dark or all lit here.
DisplayInit ==
  /\ frame_buffer = [i \in 0 .. BufSize - 1 |-> {}]
  /\ script = <<>> /\ oledCall = "none" /\ miso = FALSE /\ panicked = FALSE
  /\ \E b \in {{}, 0 .. Cell - 1} : ram = [page \in 0 .. Pages - 1 |-> [col \in 0 .. Cols - 1 |-> b]]
  /\ panel = AfterReset

----------------------------------------------------------------------------
(* The panel.                                                               *)

\* The number of arguments of a command.
Arguments(b) ==
  CASE b \in {"COLUMN_ADDRESS", "PAGE_ADDRESS"} -> 2
    [] b \in {"ADDRESS_MODE", "CLOCK_DIVIDE", "MULTIPLEX_RATIO", "DISPLAY_OFFSET",
              "DCDC_CONFIG", "COM_CONFIG", "CONTRAST", "PRECHARGE_PERIOD",
              "VCOMH_DESELECT"} -> 1
    [] OTHER -> 0

\* The effect of a complete command c.
Execute(c) ==
  CASE c[1] = "DISPLAY_OFF"    -> [panel EXCEPT !.on = FALSE, !.command = <<>>]
    [] c[1] = "DISPLAY_ON"     -> [panel EXCEPT !.on = TRUE, !.command = <<>>]
    [] c[1] = "SEG0_IS_COL_127" -> [panel EXCEPT !.segRemap = TRUE, !.command = <<>>]
    [] c[1] = "SCAN_DIR_DOWN"  -> [panel EXCEPT !.comRemap = TRUE, !.command = <<>>]
    [] c[1] = "ADDRESS_MODE"   -> [panel EXCEPT !.horizontal = TRUE, !.command = <<>>]
    [] c[1] = "COLUMN_ADDRESS" ->
         [panel EXCEPT !.cols = <<c[2], c[3]>>, !.col = c[2], !.command = <<>>]
    [] c[1] = "PAGE_ADDRESS"   ->
         [panel EXCEPT !.pages = <<c[2], c[3]>>, !.page = c[2], !.command = <<>>]
    [] OTHER -> [panel EXCEPT !.command = <<>>]

ReceiveCommand(b) ==
  LET c == Append(panel.command, b)
  IN  panel' = IF Len(c) = 1 + Arguments(c[1]) THEN Execute(c) ELSE [panel EXCEPT !.command = c]

\* A byte of data goes to the address pointed to, and the pointers move on.
ReceiveData(b) ==
  LET endOfLine == panel.col = panel.cols[2]
      nextPage  == IF ~endOfLine \/ ~panel.horizontal THEN panel.page
                   ELSE IF panel.page = panel.pages[2] THEN panel.pages[1]
                   ELSE panel.page + 1
  IN  /\ ram' = [ram EXCEPT ![panel.page][panel.col] = b]
      /\ panel' = [panel EXCEPT !.page = nextPage,
                     !.col = IF endOfLine THEN panel.cols[1] ELSE @ + 1]

\* The pins the panel hangs on have their functions.
SpiWired == /\ \A pin \in {CE0_N, MOSI, SCLK} : Function(pin) = ALT0
            /\ \A pin \in {MISO, RESET} : Function(pin) = OUTPUT

\* The pixels one sees: columns and rows are remapped on the way to the glass.
Lit ==
  IF ~panel.on THEN {}
  ELSE {pixel \in (0 .. Rows - 1) \X (0 .. Cols - 1) :
          LET row == IF panel.comRemap THEN Rows - 1 - pixel[1] ELSE pixel[1]
              col == IF panel.segRemap THEN Cols - 1 - pixel[2] ELSE pixel[2]
          IN  row % Cell \in ram[row \div Cell][col]}

----------------------------------------------------------------------------
(* The driver's calls.                                                      *)

OledFree == oledCall = "none" /\ ~panicked

\* Mutant: rows are not turned round.
BitOfUnturned(r, c) ==
  <<(Cols - 1 - c) + (r \div Cell) * Cols, r % Cell>>

\* The byte and the bit of a pixel.
BitOf(r, c) ==
  LET col == Cols - 1 - c
      row == Rows - 1 - r
  IN  <<col + (row \div Cell) * Cols, row % Cell>>

\* oled_buf_pixel_set and oled_buf_pixel_clr.
Pixel(r, c, lit) ==
  /\ OledFree
  /\ IF c >= Cols \/ r >= Rows
       THEN panicked' = TRUE /\ UNCHANGED frame_buffer
       ELSE /\ LET at == BitOf(r, c)
               IN  frame_buffer' = [frame_buffer EXCEPT ![at[1]] =
                                      IF lit THEN @ \cup {at[2]} ELSE @ \ {at[2]}]
            /\ UNCHANGED panicked
  /\ UNCHANGED <<script, oledCall, miso, ram, panel, gpfsel>>

\* Clears OLED_COLS bytes, the first page, of the OLED_BUF_SIZE.
oled_buf_clr ==
  /\ OledFree
  /\ frame_buffer' = [i \in 0 .. BufSize - 1 |-> IF i < Cols THEN {} ELSE frame_buffer[i]]
  /\ UNCHANGED <<script, oledCall, miso, panicked, ram, panel, gpfsel>>

Command(b) == [do |-> "command", arg |-> b]
DataMode   == [do |-> "data mode", arg |-> 0]
Pixels8(i) == [do |-> "data", arg |-> i]
Dark       == [do |-> "dark", arg |-> 0]

\* oled_start_sequence.
StartSequence ==
  <<Command("COLUMN_ADDRESS"), Command(0), Command(Cols - 1),
    Command("PAGE_ADDRESS"), Command(0), Command(Pages - 1)>>

\* The commands of oled_init; the values of those that only tune the panel are
\* of no concern, that they come as arguments is.
InitSequence ==
  <<Command("DISPLAY_OFF"), Command("CLOCK_DIVIDE"), Command("value"),
    Command("MULTIPLEX_RATIO"), Command("value"), Command("DISPLAY_OFFSET"),
    Command("value"), Command("START_LINE"), Command("DCDC_CONFIG"),
    Command("value"), Command("ADDRESS_MODE"), Command("HORIZONTAL"),
    Command("SEG0_IS_COL_127"), Command("SCAN_DIR_DOWN"), Command("COM_CONFIG"),
    Command("value"), Command("CONTRAST"), Command("value"),
    Command("PRECHARGE_PERIOD"), Command("value"), Command("VCOMH_DESELECT"),
    Command("value"), Command("ENTIRE_DISPLAY_NORMAL"),
    Command("INVERSION_NORMAL"), Command("DISPLAY_ON")>>

\* oled_reset: the RESET pin goes low and high again; the memory keeps.
oled_reset ==
  /\ OledFree
  /\ gpfsel' = gpio_config(RESET, OUTPUT, gpfsel)
  /\ panel' = AfterReset
  /\ UNCHANGED <<frame_buffer, script, oledCall, miso, panicked, ram>>

\* The registers after spi_master_init.
spi_master_init(old) ==
  gpio_config(SCLK, ALT0, gpio_config(MOSI, ALT0,
    gpio_config(CE0_N, ALT0, gpio_config(CE1_N, ALT0, old))))

\* oled_init: a reset, the pins (spi_master_init), then the commands.
oled_init ==
  /\ OledFree
  /\ gpfsel' = spi_master_init(gpio_config(MISO, OUTPUT,
                                           gpio_config(RESET, OUTPUT, gpfsel)))
  /\ panel' = AfterReset
  /\ oledCall' = "init" /\ script' = InitSequence
  /\ miso' = FALSE
  /\ UNCHANGED <<frame_buffer, panicked, ram>>

oled_buf_draw ==
  /\ OledFree
  /\ oledCall' = "draw"
  /\ script' = StartSequence \o <<DataMode>> \o [i \in 1 .. BufSize |-> Pixels8(i - 1)]
  /\ UNCHANGED <<frame_buffer, miso, panicked, ram, panel, gpfsel>>

oled_clear_screen ==
  /\ OledFree
  /\ oledCall' = "clear"
  /\ script' = StartSequence \o <<DataMode>> \o [i \in 1 .. BufSize |-> Dark]
  /\ UNCHANGED <<frame_buffer, miso, panicked, ram, panel, gpfsel>>

\* The next thing of the script: a command (oled_write_command sets MISO low
\* for it), MISO high, or a byte of data (spi_transfer).
OledStep ==
  /\ script # <<>>
  /\ script' = Tail(script)
  /\ oledCall' = IF Tail(script) = <<>> THEN "none" ELSE oledCall
  /\ LET now == Head(script) IN
     /\ miso' = CASE now.do = "command" -> FALSE
                  [] now.do = "data mode" -> TRUE
                  [] OTHER -> miso
     /\ IF ~SpiWired \/ now.do = "data mode" THEN UNCHANGED <<ram, panel>>
        ELSE IF ~miso' THEN ReceiveCommand(now.arg) /\ UNCHANGED ram
        ELSE ReceiveData(IF now.do = "data" THEN frame_buffer[now.arg] ELSE {})
  /\ UNCHANGED <<frame_buffer, panicked, gpfsel>>

\* The driver's calls, and the steps that carry them out.  A client may miss the
\* screen by one pixel, as the box of oled_screen_test does at its edges.
DisplayCall ==
  \/ \E r \in 0 .. Rows, c \in 0 .. Cols, lit \in BOOLEAN : Pixel(r, c, lit)
  \/ oled_buf_clr
  \/ oled_reset
  \/ oled_init
  \/ SpiWired /\ oled_buf_draw        \* oled_init has been called
  \/ SpiWired /\ oled_clear_screen

----------------------------------------------------------------------------
(* Against the abstract screen.                                             *)

Picture == {pixel \in (0 .. Rows - 1) \X (0 .. Cols - 1) :
              LET at == BitOf(pixel[1], pixel[2]) IN at[2] \in frame_buffer[at[1]]}

Glass == INSTANCE Screen
           WITH picture <- Picture, shown <- Lit,
                on <- panel.on, busy <- oledCall, stopped <- panicked

\* What oled_buf_clr does keep: it lights nothing, and the glass stays as it is.
ClearsPart == oled_buf_clr /\ Picture' \subseteq Picture /\ Lit' = Lit

\* Every byte sent takes the panel one step towards the picture, and the call
\* that draws returns only when the glass shows the picture the client sees,
\* the right way round: the windows, the panel's pointers and remapping and
\* the turned coordinates of the buffer fit, after resets and half-used calls
\* too.  Every call but oled_buf_clr does what Screen says.
ImplementsScreenButClear ==
  Glass!Init /\ [][Glass!Next \/ ClearsPart]_(Glass!screenVars)

\* screen.h promises Screen whole: oled_buf_clr is to "clear the internal OLED
\* display buffer".
ImplementsScreen == Glass!Spec

=============================================================================
