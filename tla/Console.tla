------------------------------- MODULE Console -------------------------------
(***************************************************************************)
(* What the kernel prints: libk/printf.c, timer_format of                  *)
(* interrupts/timer.c, terminal/terminal.c and terminal/framebuffer.c.     *)
(* The pixels of one character of the screen are one cell; a word of fixed *)
(* text is its first letter.  Time is in units of the 100 us a time stamp  *)
(* shows.  An interrupt never prints while printf runs: whatever prints is *)
(* one step.                                                               *)
(***************************************************************************)
EXTENDS StrUtil

CONSTANTS FbWidth, FbHeight, FbPitch,  \* the frame buffer: pixels, bytes of a row
          IntBits,     \* bits of a size_t and bytes of printf's buffer, 64
          Messages,    \* [level, fmt]: what is printed; fmt zips the
                       \* conversions of a format with their arguments
          Moments,     \* bound: the times looked at
          MaxPrints    \* bound: messages

ASSUME ConsoleAssumption ==
  /\ {FbWidth, FbHeight, FbPitch, IntBits, MaxPrints} \subseteq Nat
  /\ Moments \subseteq Nat
  /\ FbWidth >= 32 /\ FbHeight >= 32 /\ FbPitch >= 4 * FbWidth
  /\ IntBits >= 8 /\ {FbWidth, FbHeight} \subseteq 0 .. Power(2, IntBits - 1) - 1

\* What a format may hold: characters and conversions with their arguments.
FmtElements ==
  ({"put", "s", "S"} \X Seq(1 .. 255))
    \cup ({"c"} \X {<<c>> : c \in 1 .. 255})
    \cup ({"a", "x"} \X {<<v>> : v \in 0 .. Power(2, IntBits) - 1})
    \cup ({"d", "b"} \X {<<v>> : v \in -Power(2, IntBits - 1) .. Power(2, IntBits - 1) - 1})

ASSUME MessageAssumption ==
  Messages \subseteq [level : {"NONE", "INFO", "OKAY", "WARN", "CRIT"}, fmt : Seq(FmtElements)]

Newline == 10
Dot     == 46
Zero    == 48
White   == "white"
Letter  == [INFO |-> 73, OKAY |-> 79, WARN |-> 87, CRIT |-> 67]
Colour  == [INFO |-> "blue", OKAY |-> "green", WARN |-> "yellow", CRIT |-> "red"]

Width  == (FbWidth - 16) \div 8
Height == (FbHeight - 16) \div 16
Cells  == 0 .. Width * Height - 1

Junk == <<NUL, "junk">>   \* what malloc'ed memory held
Boot == <<NUL, "boot">>   \* what the boot loader left on the screen
Dark == <<Blank, White>>  \* no pixel set; the colour of a blank is not seen

VARIABLES
  term,     \* isready, chr_index, fg, fb_buffer, fb_mmio; ghosts: log, what
            \* the last step put on the terminal, and paper, all of it
  buf,      \* printf's static buffer up to its NUL
  overrun,  \* a conversion was longer than that buffer
  stamp,    \* timestamp_buf
  elapsed,  \* timer_elapsed_us
  meant,    \* ghost: what the messages of the last step say
  prints    \* messages printed

convars == <<term, buf, overrun, stamp, elapsed, meant, prints>>

-----------------------------------------------------------------------------
(* The terminal. *)

\* framebuffer_putpixel for the pixels of cell i, in both copies.
PutCell(t, i, v) == [t EXCEPT !.fb_buffer[i] = v, !.fb_mmio[i] = v]

\* Where a pixel lies in the frame buffer, in words, and the pixels of a cell.
PixelAt(x, y) == ((y + 8) * FbPitch) \div 4 + x + 8
Glyph(i) == {PixelAt((i % Width) * 8 + ix, (i \div Width) * 16 + iy) :
               ix \in 0 .. 7, iy \in 0 .. 15}
Border ==
  {PixelAt(x - 8, y - 8) : x \in 0 .. FbWidth - 1, y \in 0 .. 7}
    \cup {PixelAt(x - 8, y - 16 + FbHeight) : x \in 0 .. FbWidth - 1, y \in 0 .. 7}
    \cup {PixelAt(x - 8, y - 8) : x \in 0 .. 7, y \in 0 .. FbHeight - 1}
    \cup {PixelAt(x - 16 + FbWidth, y - 8) : x \in 0 .. 7, y \in 0 .. FbHeight - 1}

\* Every line goes up by one, read from the buffer; the last one is cleared.
ScrolledKeepLast(t) ==
  [i \in Cells |-> IF i + Width \in Cells THEN t.fb_buffer[i + Width]
                   ELSE t.fb_buffer[i]]
Scrolled(t) ==
  [i \in Cells |-> IF i + Width \in Cells THEN t.fb_buffer[i + Width] ELSE Dark]

TerminalScroll(t) ==
  [t EXCEPT !.fb_buffer = Scrolled(t), !.fb_mmio = Scrolled(t),
            !.chr_index = @ - Width]

Shown(c, fg) == IF c = Blank THEN Dark ELSE <<c, fg>>

\* Ghost: the text on an endless roll of paper of the terminal's width; a
\* newline goes behind the next cell, to the beginning of a line.
OnPaper(p, v) ==
  IF v[1] = Newline THEN [p EXCEPT !.at = ((@ + 1) \div Width + 1) * Width]
  ELSE [at  |-> p.at + 1,
        ink |-> [i \in DOMAIN p.ink \cup {p.at + 1} |->
                   IF i = p.at + 1 THEN v ELSE p.ink[i]]]

TerminalPutchar(t, c) ==
  LET at  == [t EXCEPT !.chr_index = @ + 1,
                       !.log = Append(@, Shown(c, t.fg)),
                       !.paper = OnPaper(@, Shown(c, t.fg))]
      fit == IF at.chr_index >= Width * Height THEN TerminalScroll(at) ELSE at
  IN IF ~t.isready THEN t
     ELSE IF c = Newline
          THEN [fit EXCEPT !.chr_index = @ + Width - (@ % Width)]
          ELSE PutCell(fit, fit.chr_index, Shown(c, fit.fg))

TerminalSetcolor(t, fg) == [t EXCEPT !.fg = fg]

TerminalClear(t) ==
  IF ~t.isready THEN t
  ELSE [t EXCEPT !.chr_index = 0, !.fb_buffer = [i \in Cells |-> Dark],
                 !.fb_mmio = [i \in Cells |-> Dark]]

Puts(t, cs) ==
  LET after[n \in 0 .. Len(cs)] ==
        IF n = 0 THEN t ELSE TerminalPutchar(after[n - 1], cs[n])
  IN after[Len(cs)]

-----------------------------------------------------------------------------
(* The time stamp: timestamp_buf is written over, the numbers from the     *)
(* right, and the NUL behind the seconds becomes the dot.                  *)

TimerFormat(b, time) ==
  LET sec   == Utos(time \div 10000, 10, 0)
      frac  == Utos(time % 10000, 10, 0)
      clear == Poke(Poke(b, 0, [k \in 1 .. 4 |-> Blank]), 5, [k \in 1 .. 4 |-> Zero])
      left  == Poke(clear, 4 - Len(sec), Append(sec, NUL))
  IN Poke(Poke(left, 4, <<Dot>>), 9 - Len(frac), Append(frac, NUL))

-----------------------------------------------------------------------------
(* printf. *)

SizeT(i) == Word(IntBits, i)     \* an int passed as uint64_t

\* What the buffer holds after a conversion, up to the first NUL.
Converted(b, conv, arg) ==
  CASE conv = "a" -> Utos(arg[1], 16, IntBits \div 4)
    [] conv = "d" -> Utos(SizeT(arg[1]), 10, 0)
    [] conv = "b" -> Utos(SizeT(arg[1]), 2, 0)
    [] conv = "x" -> Utos(arg[1], 16, 0)
    [] conv = "c" -> IF arg[1] = NUL THEN << >> ELSE arg
    [] conv = "s" -> arg
    [] conv = "S" -> LET bytes == [k \in DOMAIN arg |-> arg[k] % 256]
                         nuls == {k \in DOMAIN bytes : bytes[k] = NUL}
                     IN IF nuls = {} THEN bytes ELSE SubSeq(bytes, 1, Min(nuls) - 1)
    [] OTHER -> b

\* One element of a format: << "put", <<c>> >> or a conversion.
Element(o, e) ==
  LET b == Converted(o.buf, e[1], e[2])
  IN IF e[1] = "put" THEN [o EXCEPT !.term = Puts(@, e[2])]
     ELSE [term |-> Puts(o.term, b), buf |-> b,
           overrun |-> o.overrun \/ Len(b) >= IntBits]

\* Whatever a level set, the text ends in the default colour.
Body(o, fmt) ==
  LET after[n \in 0 .. Len(fmt)] ==
        IF n = 0 THEN o ELSE Element(after[n - 1], fmt[n])
  IN [after[Len(fmt)] EXCEPT !.term = TerminalSetcolor(@, White)]

TagColour(t, level) == TerminalSetcolor(t, Colour[level])
AfterTagSame(t) == t
AfterTag(t) == TerminalSetcolor(t, White)

Header(o, level, ts) ==
  LET time == Body(o, << <<"put", <<40>> >>, <<"s", Chars(ts, 0)>>,
                         <<"put", <<41, Blank>> >> >>)
      open == TagColour(Puts(time.term, <<91>>), level)
      tag  == AfterTag(Puts(open, <<Letter[level]>>))
  IN [time EXCEPT !.term = Puts(tag, <<93, Blank>>)]

Format(o, level, fmt, ts) ==
  Body(IF level = "NONE" THEN o ELSE Header(o, level, ts), fmt)

-----------------------------------------------------------------------------
(* What a message means, from its arguments alone. *)

Numeral(v, base) ==
  LET n == CHOOSE k \in 1 .. IntBits :
             v < Power(base, k) /\ (k = 1 \/ Power(base, k - 1) <= v)
  IN [k \in 1 .. n |-> Digit((v \div Power(base, n - k)) % base)]

Meaning(conv, arg) ==
  CASE conv \in {"put", "c", "s", "S"} -> arg
    [] conv = "a" -> <<Zero, 120>> \o PadLeft(Numeral(arg[1], 16), IntBits \div 4, Zero)
    [] conv = "x" -> <<Zero, 120>> \o Numeral(arg[1], 16)
    [] conv \in {"d", "b"} ->
         LET v == IF arg[1] < 0 THEN arg[1] + Power(2, IntBits) ELSE arg[1]
         IN Numeral(v, IF conv = "d" THEN 10 ELSE 2)

In(cs, colour) == [k \in DOMAIN cs |-> Shown(cs[k], colour)]

StampMeaning(time) ==
  PadLeft(Numeral(time \div 10000, 10), 4, Blank) \o <<Dot>>
    \o PadLeft(Numeral(time % 10000, 10), 4, Zero)

MessageMeaning(level, fmt, time) ==
  (IF level = "NONE" THEN << >>
   ELSE In(<<40>> \o StampMeaning(time) \o <<41, Blank, 91>>, White)
          \o In(<<Letter[level]>>, Colour[level]) \o In(<<93, Blank>>, White))
  \o In(Joined([k \in DOMAIN fmt |-> Meaning(fmt[k][1], fmt[k][2])], << >>), White)

-----------------------------------------------------------------------------
ConInit ==
  /\ term = [isready |-> FALSE, chr_index |-> 0, fg |-> White, log |-> << >>,
             paper |-> [at |-> 0, ink |-> [i \in {} |-> Dark]],
             fb_buffer |-> [i \in Cells |-> Junk], fb_mmio |-> [i \in Cells |-> Boot]]
  /\ buf = << >> /\ overrun = FALSE
  /\ stamp = [i \in 0 .. 15 |-> NUL] /\ elapsed = 0
  /\ meant = << >> /\ prints = 0

\* The messages are printed one after the other on terminal t.
PrintAll(t, messages) ==
  LET ts  == TimerFormat(stamp, elapsed)
      after[n \in 0 .. Len(messages)] ==
        IF n = 0 THEN [term |-> [t EXCEPT !.log = << >>], buf |-> buf,
                       overrun |-> overrun]
        ELSE Format(after[n - 1], messages[n].level, messages[n].fmt, ts)
      out == after[Len(messages)]
      stamped == \E k \in DOMAIN messages : messages[k].level # "NONE"
  IN /\ term' = out.term /\ buf' = out.buf
     /\ overrun' = (out.overrun \/ (stamped /\ elapsed >= 100000000))
     /\ stamp' = IF stamped THEN ts ELSE stamp
     /\ meant' = IF t.isready
                 THEN Joined([k \in DOMAIN messages |->
                        MessageMeaning(messages[k].level, messages[k].fmt, elapsed)],
                        << >>)
                 ELSE << >>

\* The clearing is for nothing: the terminal is not ready yet.
TerminalInitialize ==
  /\ ~term.isready
  /\ PrintAll([TerminalClear([term EXCEPT !.chr_index = 0, !.fg = White])
                EXCEPT !.isready = TRUE],
              << [level |-> "INFO",
                  fmt |-> << <<"put", <<84>> >>, <<"d", <<Width>> >>,
                             <<"put", <<120>> >>, <<"d", <<Height>> >>,
                             <<"put", <<Newline>> >> >>],
                 [level |-> "OKAY", fmt |-> << <<"put", <<70, Newline>> >> >>] >>)
  /\ UNCHANGED <<elapsed, prints>>

Printf ==
  /\ prints < MaxPrints
  /\ \E msg \in Messages : PrintAll(term, <<msg>>)
  /\ prints' = prints + 1
  /\ UNCHANGED elapsed

TimerTick ==
  /\ \E now \in Moments : now > elapsed /\ elapsed' = now
  /\ UNCHANGED <<term, buf, overrun, stamp, meant, prints>>

ConNext == TerminalInitialize \/ Printf \/ TimerTick

ConSpec == ConInit /\ [][ConNext]_convars

-----------------------------------------------------------------------------
ConTypeOK ==
  /\ term.isready \in BOOLEAN
  /\ term.chr_index \in 0 .. Width * Height
  /\ DOMAIN term.fb_buffer = Cells /\ DOMAIN term.fb_mmio = Cells
  /\ overrun \in BOOLEAN
  /\ DOMAIN stamp = 0 .. 15 /\ elapsed \in Moments \cup {0} /\ prints \in 0 .. MaxPrints

\* printf (printf.c:60): whatever its buffer still holds, the terminal gets
\* the time, the level in its colour and the arguments in white, as long as
\* no conversion and no time overran a static buffer.
SaysWhatIsMeant == ~overrun => term.log = meant

\* terminal_putchar and terminal_scroll (terminal.c:40, 100): the screen is
\* the end of the roll, scrolled no further than the last line needs; where
\* nothing was printed it is dark below what the first screen showed.
ScreenShowsTail ==
  LET paper == term.paper
      top == (paper.at - term.chr_index) \div Width
  IN /\ top >= 0 /\ paper.at = term.chr_index + top * Width
     /\ top > 0 => term.chr_index >= Width * (Height - 1)
     /\ \A i \in Cells :
          LET p == i + top * Width
          IN term.fb_mmio[i] =
               IF p \in DOMAIN paper.ink THEN paper.ink[p]
               ELSE IF p \notin Cells THEN Dark
               ELSE IF top = 0 THEN Boot ELSE Junk

\* framebuffer_putpixel (framebuffer.c:29) keeps a copy for scrolling, which
\* is never read from the device: it must not differ from what is shown.
CopyIsScreen ==
  \A i \in Cells : \/ term.fb_mmio[i] = term.fb_buffer[i]
                   \/ term.fb_mmio[i] = Boot /\ term.fb_buffer[i] = Junk

\* framebuffer_putpixel, terminal_putchar (terminal.c:58): the characters lie
\* within the frame buffer, beside each other and never on the border.
Pixels == [i \in Cells |-> Glyph(i)]
Amiss ==
  {i \in Cells : \/ \E w \in Pixels[i] : w \in Border \/ 4 * w >= FbHeight * FbPitch
                \/ \E j \in Cells \ {i} : Pixels[i] \cap Pixels[j] # {}}
GlyphsApart == \A i \in Amiss : term.fb_mmio[i] = Boot

\* The screen at every moment (terminal.c:40, framebuffer.c:29): what was
\* printed last, in both copies, in cells that do not touch.
ScreenRight == ConTypeOK /\ ScreenShowsTail /\ CopyIsScreen /\ GlyphsApart
=============================================================================
