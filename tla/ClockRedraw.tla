---------------------------- MODULE ClockRedraw ----------------------------
(***************************************************************************)
(* The clock on the screen: display_time and display_number of clock_cli.c *)
(* with screen_clear_box and screen_term_size of screen.c, one frame of    *)
(* actual_main's loop at a time.  A frame draws only what has changed      *)
(* since the last one: the digits from the first that differs, or all of   *)
(* them behind a cleared box.  The model keeps every cell of the terminal  *)
(* and its cursor.  Between two frames the terminal may change its size,   *)
(* and it echoes the keys, since keyboard_flush_stdin turns the echo off   *)
(* only while it reads.                                                    *)
(***************************************************************************)
EXTENDS Integers, Sequences

CONSTANTS
    Times,      \* what time_now returns: sequences of glyphs
    Font,       \* glyph -> its rows, each a sequence of BOOLEAN
    Positions,  \* values of clock_pos, 0 meaning centred
    Scales,     \* values of clock_scale
    Looks,      \* colour and fill, awake and asleep
    TermSizes,  \* sizes of the terminal
    Prompt,     \* columns of "Press [Enter] to unlock. "
    MaxTyped    \* keys echoed between two frames

Space == " "    \* font[11], the glyph between two others

(* toint_min and toint_min_max take no others.                             *)
ASSUME ArgsAssumption ==
    /\ Positions \subseteq [row : Nat, col : Nat]
    /\ Scales \subseteq 1 .. 255
ASSUME TermAssumption ==
    /\ \A t \in TermSizes : t.row \in Nat \ {0} /\ t.col \in Nat /\ t.col > Prompt
    /\ Prompt \in Nat /\ MaxTyped \in Nat
ASSUME FontAssumption ==
    /\ Space \in DOMAIN Font
    /\ \A g \in DOMAIN Font : Font[g] \in Seq(Seq(BOOLEAN)) /\ Font[g] # <<>>

Width(g)  == Len(Font[g][1])
Height(g) == Len(Font[g])

(* "%02d:%02d:%02d", and the digits of a font have one size.               *)
ASSUME TimesAssumption ==
    /\ Times \subseteq Seq(DOMAIN Font) \ {<<>>}
    /\ \A s, t \in Times :
          /\ Len(s) = Len(t)
          /\ \A k \in DOMAIN t : /\ Width(s[k]) = Width(t[k])
                                /\ Height(s[k]) = Height(t[k])

VARIABLES
    args,       \* clock_pos and clock_scale
    mode,       \* the inner loop, or the password prompt between two of them
    term,       \* what screen_term_size returns
    screen,     \* every cell of the terminal: a character and its colour
    cursor,     \* its row and column; one column too far when a row is full
    typed,      \* keys echoed since the last frame
    last_draw,  \* the static variables last_draw_*
    stale,      \* history: resized since everything was drawn
    touched     \* history: cells below the message that an echoed key has
                \* written or scrolled since the clock wrote or cleared them

vars == <<args, mode, term, screen, cursor, typed, last_draw, stale, touched>>

-----------------------------------------------------------------------------
Cells(size) == (1 .. size.row) \X (1 .. size.col)
Blank  == <<" ", 0>>
Filled(size) == [cell \in Cells(size) |-> Blank]

(* display_number's mask: the bit of a glyph at a scaled offset.           *)
Bit(g, scale, row, col) == Font[g][(row \div scale) + 1][(col \div scale) + 1]

(* A fill of no characters stands for the digits themselves (ZERO_FILLS).  *)
Ink(look, g) == <<IF look.fill = "" THEN g ELSE look.fill, look.colour>>

(* The columns and rows of a whole time, with a space between its glyphs.  *)
SizeCols(t, scale) ==
    LET upto[k \in 0 .. Len(t)] ==
            IF k = 0 THEN 0
            ELSE upto[k - 1] + Width(t[k]) * scale
                 + (IF k < Len(t) THEN Width(Space) * scale ELSE 0)
    IN  upto[Len(t)]

SizeRows(t, scale) ==
    scale * (CHOOSE h \in {Height(t[k]) : k \in DOMAIN t} :
                \A k \in DOMAIN t : Height(t[k]) <= h)

(* >> 1 rounds down, also for a clock larger than the terminal.            *)
Centred(given, room, size) ==
    IF given = 0 THEN ((room - size) \div 2) + 1 ELSE given

Start(t) == [row |-> Centred(args.pos.row, term.row, SizeRows(t, args.scale)),
             col |-> Centred(args.pos.col, term.col, SizeCols(t, args.scale))]
End(t) == [row |-> Start(t).row + SizeRows(t, args.scale),
           col |-> Start(t).col + SizeCols(t, args.scale)]

(* The first glyph to draw: all, or from the first that differs.           *)
FirstChange(t) ==
    CHOOSE k \in 1 .. Len(t) + 1 :
        /\ k <= Len(t) => k > Len(last_draw.time) \/ t[k] # last_draw.time[k]
        /\ \A j \in 1 .. k - 1 : t[j] = last_draw.time[j]

(* The column the skipping loop has come to before the k-th glyph.         *)
(* Mutant: without the spaces.                                             *)
SkippedTo_unspaced(t, k) ==
    LET at[j \in 1 .. k] == IF j = 1 THEN Start(t).col
                            ELSE at[j - 1] + Width(t[j - 1]) * args.scale
    IN  at[k]

SkippedTo(t, k) ==
    LET at[j \in 1 .. k] ==
            IF j = 1 THEN Start(t).col
            ELSE at[j - 1] + Width(t[j - 1]) * args.scale
                 + (IF j <= Len(t) THEN Width(Space) * args.scale ELSE 0)
    IN  at[k]

(* The columns of the glyphs that the drawing loop, begun at k, draws.     *)
Columns(t, k) ==
    LET step(j) == (Width(t[j]) + Width(Space)) * args.scale
        upto[j \in k - 1 .. Len(t)] ==
            IF j < k THEN <<>>
            ELSE IF j = k THEN <<SkippedTo(t, k)>>
            ELSE Append(upto[j - 1], upto[j - 1][j - k] + step(j - 1))
    IN  upto[Len(t)]

(* The glyphs from k on that lie over each cell of the terminal.           *)
Covering(t, k) ==
    LET top  == Start(t).row
        left == Columns(t, k)
    IN  [cell \in Cells(term) |->
            {i \in k .. Len(t) :
                /\ cell[1] - top \in 0 .. Height(t[i]) * args.scale - 1
                /\ cell[2] - left[i - k + 1] \in 0 .. Width(t[i]) * args.scale - 1}]

(* display_number for the glyphs from k on, clipped to the terminal.       *)
(* Mutant: not clipped.                                                    *)
Drawn_unclipped(old, t, k, look) ==
    [cell \in DOMAIN old \cup (Start(t).row .. End(t).row - 1)
                           \X (Start(t).col .. End(t).col - 1) |->
        IF cell \in DOMAIN old THEN old[cell] ELSE Ink(look, t[1])]

Drawn(old, t, k, look) ==
    LET over == Covering(t, k)
        top  == Start(t).row
        left == Columns(t, k)
    IN  [cell \in DOMAIN old |->
            IF over[cell] = {} THEN old[cell]
            ELSE LET i == CHOOSE i \in over[cell] : TRUE
                 IN  IF Bit(t[i], args.scale, cell[1] - top,
                            cell[2] - left[i - k + 1])
                     THEN Ink(look, t[i]) ELSE Blank]

(* Both corners included.                                                  *)
InLastBox(cell) ==
    /\ cell[1] \in last_draw.start.row .. last_draw.end.row
    /\ cell[2] \in last_draw.start.col .. last_draw.end.col

(* Mutant: the box is not cleared below its first row.                     *)
screen_clear_box_row(old) ==
    [cell \in DOMAIN old |->
        IF /\ cell[1] = last_draw.start.row
           /\ cell[2] \in last_draw.start.col .. last_draw.end.col
        THEN Blank ELSE old[cell]]

screen_clear_box(old) ==
    [cell \in DOMAIN old |-> IF InLastBox(cell) THEN Blank ELSE old[cell]]

(* The font is given on the command line and never differs.                *)
full_redraw(t, look) ==
    \/ last_draw.start # Start(t)
    \/ last_draw.end # End(t)
    \/ last_draw.colour # look.colour
    \/ last_draw.fill # look.fill
    \/ last_draw.time = <<>>

(* The message over the erased first row.                                  *)
Prompted(old) ==
    [cell \in DOMAIN old |->
        IF cell[1] # 1 THEN old[cell]
        ELSE IF cell[2] <= Prompt THEN <<"prompt", 0>> ELSE Blank]

Below(cells) == {cell \in cells : cell[1] # 1}

(* Writing at the cursor, as the terminal does it.                         *)
Tty == [screen |-> screen, cursor |-> cursor, touched |-> touched]

(* On the last row a new line moves everything up.                         *)
NewLine(tty) ==
    IF tty.cursor[1] < term.row
    THEN [tty EXCEPT !.cursor = <<tty.cursor[1] + 1, 1>>]
    ELSE [screen  |-> [cell \in Cells(term) |->
                         IF cell[1] < term.row THEN tty.screen[<<cell[1] + 1, cell[2]>>]
                         ELSE Blank],
          cursor  |-> <<term.row, 1>>,
          touched |-> Cells(term)]

(* A row that is full is left with the next character.                     *)
Character(tty) ==
    LET at == IF tty.cursor[2] <= term.col THEN tty ELSE NewLine(tty)
    IN  [screen  |-> [at.screen EXCEPT ![at.cursor] = <<"text", 0>>],
         cursor  |-> <<at.cursor[1], at.cursor[2] + 1>>,
         touched |-> at.touched \cup {at.cursor}]

-----------------------------------------------------------------------------
Init ==
    /\ args \in [pos : Positions, scale : Scales]
    /\ mode = "clock"
    /\ term \in TermSizes
    /\ screen = Filled(term)                                \* screen_clear
    /\ cursor = <<1, 1>>
    /\ typed = 0
    /\ last_draw = [start |-> [row |-> 0, col |-> 0],      \* static: zeroed
                    end   |-> [row |-> 0, col |-> 0],
                    colour |-> 0, fill |-> "NULL", time |-> <<>>]
    /\ stale = TRUE
    /\ touched = {}

(* A turn of the inner loop in which the time could be had: the clock,     *)
(* then the message, which the frame ends with.                            *)
Frame(t, look) ==
    /\ mode = "clock"
    /\ LET all == full_redraw(t, look)
           k == IF all THEN 1 ELSE FirstChange(t)
           cleared == IF all THEN screen_clear_box(screen) ELSE screen
           over == Covering(t, k)
       IN  /\ screen' = Prompted(Drawn(cleared, t, k, look))
           /\ stale' = (stale /\ ~all)
           /\ touched' = {cell \in Below(touched) :
                            ~(all /\ InLastBox(cell)) /\ over[cell] = {}}
    /\ cursor' = <<1, Prompt + 1>>
    /\ typed' = 0
    /\ last_draw' = [start |-> Start(t), end |-> End(t),
                     colour |-> look.colour, fill |-> look.fill, time |-> t]
    /\ UNCHANGED <<args, mode, term>>

(* time() or localtime() failed: perror's line, here of one character, is  *)
(* written where the cursor is, and then the message.                      *)
FrameWithoutTime ==
    /\ mode = "clock"
    /\ LET tty == NewLine(Character(Tty))
       IN  /\ screen' = Prompted(tty.screen)
           /\ touched' = Below(tty.touched)
    /\ cursor' = <<1, Prompt + 1>>
    /\ typed' = 0
    /\ UNCHANGED <<args, mode, term, last_draw, stale>>

(* The loop is left for the password prompt, whose text begins on row 1.   *)
Leave ==
    /\ mode = "clock"
    /\ mode' = "prompt"
    /\ screen' = [cell \in Cells(term) |->
                    IF cell[1] = 1 THEN <<"text", 0>> ELSE Blank]
    /\ cursor' = <<1, 1>>
    /\ typed' = 0
    /\ touched' = {}
    /\ UNCHANGED <<args, term, last_draw, stale>>

(* An incorrect password: screen_clear and display_time_init.              *)
Enter ==
    /\ mode = "prompt"
    /\ mode' = "clock"
    /\ screen' = Filled(term)
    /\ cursor' = <<1, 1>>
    /\ last_draw' = [last_draw EXCEPT !.time = <<>>]
    /\ UNCHANGED <<args, term, typed, stale, touched>>

(* The terminal changes its size and keeps the cells that are in both.     *)
Resize ==
    /\ \E size \in TermSizes \ {term} :
          /\ term' = size
          /\ screen' = [cell \in Cells(size) |->
                          IF cell \in DOMAIN screen THEN screen[cell] ELSE Blank]
          /\ cursor' = <<IF cursor[1] > size.row THEN size.row ELSE cursor[1],
                         IF cursor[2] > size.col THEN size.col ELSE cursor[2]>>
          /\ touched' = touched \cap Cells(size)
    /\ stale' = TRUE
    /\ UNCHANGED <<args, mode, typed, last_draw>>

(* A key is echoed where the cursor is; [Enter] as a new line.             *)
Echo ==
    /\ mode = "clock"
    /\ typed < MaxTyped
    /\ \E tty \in {Character(Tty), NewLine(Tty)} :
          /\ screen' = tty.screen
          /\ cursor' = tty.cursor
          /\ touched' = tty.touched
    /\ typed' = typed + 1
    /\ UNCHANGED <<args, mode, term, last_draw, stale>>

Next == \/ \E t \in Times, look \in Looks : Frame(t, look)
        \/ FrameWithoutTime \/ Leave \/ Enter \/ Resize \/ Echo

Spec == Init /\ [][Next]_vars

-----------------------------------------------------------------------------
Chars == {" ", "prompt", "text"} \cup DOMAIN Font \cup {l.fill : l \in Looks}
Colours == {0} \cup {l.colour : l \in Looks}

(* Type invariant.                                                         *)
TypeOK ==
    /\ args \in [pos : Positions, scale : Scales]
    /\ mode \in {"clock", "prompt"}
    /\ term \in TermSizes
    /\ DOMAIN screen = Cells(term)
    /\ \A cell \in DOMAIN screen : screen[cell] \in Chars \X Colours
    /\ cursor[1] \in 1 .. term.row /\ cursor[2] \in 1 .. term.col + 1
    /\ typed \in 0 .. MaxTyped
    /\ touched \subseteq Cells(term)
    /\ last_draw.start.row \in Int /\ last_draw.start.col \in Int
    /\ last_draw.end.row \in Int /\ last_draw.end.col \in Int
    /\ last_draw.colour \in Colours
    /\ last_draw.fill \in {"NULL"} \cup {l.fill : l \in Looks}
    /\ last_draw.time \in {<<>>} \cup Times
    /\ stale \in BOOLEAN

(* The first column of a glyph, by the widths of those before it.          *)
LeftOf(t, i) ==
    last_draw.start.col + args.scale *
        (SizeCols(SubSeq(t, 1, i - 1), 1) + (IF i > 1 THEN Width(Space) ELSE 0))

(* The cells of the last time drawn whole on an empty screen, with no      *)
(* regard to the size of the terminal.                                     *)
Shown ==
    LET t == last_draw.time
        Pixels(i) == {rc \in (0 .. args.scale * Height(t[i]) - 1)
                                \X (0 .. args.scale * Width(t[i]) - 1) :
                        Bit(t[i], args.scale, rc[1], rc[2])}
    IN  UNION {{<<last_draw.start.row + rc[1], LeftOf(t, i) + rc[2],
                  Ink(last_draw, t[i])>> : rc \in Pixels(i)} : i \in DOMAIN t}

(* The cells below the message that no echoed key has touched.             *)
Clean == {cell \in Cells(term) : cell[1] # 1} \ touched

(* Between frames the screen shows below the message exactly the last time *)
(* in its colour and fill, although each frame drew only what had changed, *)
(* through sleeping and waking, wrong passwords and clocks larger than the *)
(* terminal.  Two things are made good by a later full redraw, or by the   *)
(* screen being cleared, and not before: a terminal resized under a clock  *)
(* at a fixed place, and the keys the terminal has echoed onto a row below *)
(* the message, or scrolled the clock with, which stay where no digit is   *)
(* drawn over them.                                                        *)
ShowsTime ==
    mode = "clock" /\ last_draw.time # <<>> /\ ~stale
      => {<<cell[1], cell[2], screen[cell]>> :
             cell \in {cell \in Clean : screen[cell] # Blank}}
         = {s \in Shown : <<s[1], s[2]>> \in Clean /\ s[3] # Blank}

(* Nothing of an earlier place, size or look of the clock is ever left     *)
(* outside its box, also when the terminal was resized; what shows there   *)
(* was echoed, or was scrolled by an echoed [Enter].                       *)
NoResidue ==
    mode = "clock"
      => \A cell \in Clean :
            \/ screen[cell] = Blank
            \/ /\ last_draw.time # <<>>
               /\ cell[1] \in last_draw.start.row .. last_draw.end.row - 1
               /\ cell[2] \in last_draw.start.col .. last_draw.end.col - 1
=============================================================================
