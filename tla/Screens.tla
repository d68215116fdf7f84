------------------------------ MODULE Screens ------------------------------
(***************************************************************************)
(* What the kernel promises about its screens: every terminal has one of   *)
(* its own, on which only the programs of that terminal draw, in its turn, *)
(* and, while it is the shown one, the keyboard echo.  Showing another     *)
(* terminal changes no screen.                                             *)
(***************************************************************************)
EXTENDS Integers

CONSTANTS NumTerminals, Contents, Blank

VARIABLES screen,  \* what each terminal displays, shown or not
          shown,   \* the terminal the monitor shows
          turn,    \* the terminal whose programs run
          begun    \* the terminals that have had a turn

scrVars == <<screen, shown, turn, begun>>

TerminalIds == 0 .. NumTerminals - 1

ScreensInit ==
    /\ screen \in [TerminalIds -> Contents]
    /\ shown = 0
    /\ turn = 0
    /\ begun = {}

Begin == begun = {} /\ begun' = {turn} /\ UNCHANGED <<screen, shown, turn>>

DrawOn(t) ==
    /\ \E c \in Contents : screen' = [screen EXCEPT ![t] = c]
    /\ UNCHANGED <<shown, turn, begun>>

\* Only a program whose turn it is draws; its first shell finds a blank screen.
ProgramDraws == turn \in begun /\ DrawOn(turn)
KeyboardDraws == DrawOn(shown)

PassTurn ==
    /\ turn' = (turn + 1) % NumTerminals
    /\ shown' \in {shown, turn'}
    /\ begun' = begun \cup {turn'}
    /\ screen' = IF turn' \in begun THEN screen
                 ELSE [screen EXCEPT ![turn'] = Blank]

ScreensNext == Begin \/ ProgramDraws \/ KeyboardDraws \/ PassTurn

ScreensSpec == ScreensInit /\ [][ScreensNext]_scrVars
=============================================================================
