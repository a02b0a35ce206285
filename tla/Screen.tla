------------------------------- MODULE Screen -------------------------------
(***************************************************************************)
(* What the display driver promises its client: a picture the client edits  *)
(* pixel by pixel and a screen that shows it once it was drawn.  Rows count *)
(* from the top, columns from the left (screen.h).                          *)
(***************************************************************************)
EXTENDS Integers

CONSTANTS Rows, Cols

VARIABLES
  picture,   \* the lit pixels of the client's picture
  shown,     \* the pixels that are lit on the screen
  on,        \* the panel is set up and on
  busy,      \* the call in progress: "none", "init", "draw" or "clear"
  stopped    \* a call with a pixel off the screen has stopped the program

screenVars == <<picture, shown, on, busy, stopped>>

Pixels == (0 .. Rows - 1) \X (0 .. Cols - 1)

Init == /\ picture = {} /\ shown = {} /\ on = FALSE
        /\ busy = "none" /\ stopped = FALSE

Set(pixel) == pixel \in Pixels /\ picture' = picture \cup {pixel}
Clear(pixel) == pixel \in Pixels /\ picture' = picture \ {pixel}

\* "Clear the internal OLED display buffer".
ClearBuffer == picture' = {}

Edit ==
  /\ busy = "none" /\ ~stopped
  /\ \/ \E pixel \in Pixels : Set(pixel) \/ Clear(pixel)
     \/ ClearBuffer
  /\ UNCHANGED <<shown, on, busy, stopped>>

OffScreen ==
  /\ busy = "none" /\ stopped' = TRUE
  /\ UNCHANGED <<picture, shown, on, busy>>

Reset ==
  /\ busy = "none" /\ ~stopped
  /\ on' = FALSE /\ shown' = {}
  /\ UNCHANGED <<picture, busy, stopped>>

\* Setting up blanks the screen, which then shows whatever it remembers.
BeginInit ==
  /\ busy = "none" /\ ~stopped
  /\ busy' = "init" /\ on' = FALSE /\ shown' = {}
  /\ UNCHANGED <<picture, stopped>>

EndInit ==
  /\ busy = "init"
  /\ busy' = "none" /\ on' = TRUE
  /\ shown' \subseteq Pixels
  /\ UNCHANGED <<picture, stopped>>

Begin ==
  /\ busy = "none" /\ ~stopped
  /\ busy' \in {"draw", "clear"}
  /\ UNCHANGED <<picture, shown, on, stopped>>

Target == IF busy = "draw" THEN picture ELSE {}

\* Some pixels change to what they are going to be; the call ends when all have.
Refresh ==
  /\ busy \in {"draw", "clear"}
  /\ shown' \subseteq shown \cup Target
  /\ shown \cap Target \subseteq shown'
  /\ \/ busy' = busy
     \/ busy' = "none" /\ (on => shown' = Target)
  /\ UNCHANGED <<picture, on, stopped>>

Next == Edit \/ OffScreen \/ Reset \/ BeginInit \/ EndInit \/ Begin \/ Refresh

Spec == Init /\ [][Next]_screenVars
=============================================================================
