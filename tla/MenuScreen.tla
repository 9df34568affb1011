----------------------------- MODULE MenuScreen -----------------------------
(***************************************************************************)
(* What of the menu reaches the eye: fonts/mkbin.c packs the font,         *)
(* vidconsole_init() unpacks it into an atlas of glyphs, boot_gui() fills  *)
(* the menu, gui_menu_update() draws it into the console's cells when      *)
(* something changed, and vidconsole_redraw() paints the cells.            *)
(*                                                                         *)
(* Characters are codes.  A colour is a name.  A font gives for every code *)
(* the rows of its glyph, as the .font file draws them.                    *)
(*                                                                         *)
(* A definition X_y in front of X is a faulty variant of X, there only to  *)
(* see that the properties notice it; nothing uses it.                     *)
(***************************************************************************)
EXTENDS GuiMenu, Lib, FiniteSets
LOCAL INSTANCE FiniteSetsExt

CONSTANTS
  FONT_WIDTH, FONT_HEIGHT, FONT_CHARS,   \* 8, 16, 128
  RunMax,        \* longest packet of the packed font (0x7f)
  Vec,           \* pixels painted at once (8)
  Scale,         \* pixels per pixel of a glyph (2)
  ConW,          \* columns of the menu's console (40)
  FooterSize,    \* bytes of the footer's buffer (64)
  Fonts,         \* the fonts to draw with
  Text(_),       \* the text for an id, and the fixed texts below
  Bats,          \* states of the battery to report
  Junks          \* what may lie in front of the list of lines

EmmcText    == -3
SdText      == -4
TitleText   == -5
VersionText == -6
NoBatText   == -7

ConH == ScrollHeight + 4
Code == 0 .. FONT_CHARS - 1

VARIABLES
  font,      \* the font p-boot was built with
  bat,       \* globals->bat_*
  junk,      \* the bytes an items[-1] finds
  rtcsel_def, priv_flag,   \* the default and the privacy flag kept in the RTC
  active,    \* items[].active, by line
  changed,   \* does the menu have to be drawn?
  con,       \* the console's cells, by position
  fb         \* its framebuffer: pairs <<address, colour>>

screenVars == <<font, bat, junk, rtcsel_def, priv_flag, active, changed, con, fb>>
-----------------------------------------------------------------------------
(* mkbin.c *)

(* A row is a byte, the leftmost pixel its highest bit. *)
RowByte(row) == SumSet({2 ^ (FONT_WIDTH - 1 - x) : x \in {y \in DOMAIN row : row[y]}})
FontBytes(f) == [k \in 1 .. FONT_CHARS * FONT_HEIGHT |->
                   RowByte(f[(k - 1) \div FONT_HEIGHT][(k - 1) % FONT_HEIGHT])]

(* The bytes behind the input are zero, and compared with. *)
Pin(in, p)   == IF p < Len(in) THEN in[p + 1] ELSE 0
Twins(in, p) == Pin(in, p) = Pin(in, p + 1)
RunBit       == RunMax + 1

RECURSIVE LiteralEnd(_, _, _)
LiteralEnd(in, p, n) ==
  IF ~Twins(in, p) /\ p < Len(in) /\ n <= RunMax - 1 THEN LiteralEnd(in, p + 1, n + 1) ELSE p

(* How long rle()'s output will be; n equal bytes were seen before p. *)
RECURSIVE enc_size(_, _, _)
enc_size(in, p, n) ==
  IF p >= Len(in) THEN 0
  ELSE IF Twins(in, p) /\ n < RunMax - 1 THEN enc_size(in, p + 1, n + 1)
  ELSE LET q == IF n > 0 THEN p + 1 ELSE p
           e == LiteralEnd(in, q, 0)
       IN (IF n > 0 THEN 2 ELSE 0) + (e - q) + 1 + enc_size(in, e, 0)

RECURSIVE rle(_, _, _)
rle(in, p, n) ==
  IF p >= Len(in) THEN <<>>
  ELSE IF Twins(in, p) /\ n < RunMax - 1 THEN rle(in, p + 1, n + 1)
  ELSE LET q == IF n > 0 THEN p + 1 ELSE p
           e == LiteralEnd(in, q, 0)
       IN (IF n > 0 THEN <<RunBit + ((n + 1) % RunBit), Pin(in, p)>> ELSE <<>>)
          \o <<(e - q) % RunBit>> \o SubSeq(in, q + 1, e) \o rle(in, e, 0)

font_data(f) == SubSeq(rle(FontBytes(f), 0, 0), 1, enc_size(FontBytes(f), 0, 0))
-----------------------------------------------------------------------------
(* vidconsole.c *)

RECURSIVE unrle(_)
unrle(in) ==
  IF in = <<>> THEN <<>>
  ELSE LET size == Head(in) % RunBit IN
       IF Head(in) >= RunBit
       THEN [k \in 1 .. size |-> in[2]] \o unrle(SubSeq(in, 3, Len(in)))
       ELSE SubSeq(in, 2, size + 1) \o unrle(SubSeq(in, size + 2, Len(in)))

char_stride == FONT_WIDTH * Scale
char_size   == char_stride * FONT_HEIGHT
fb_width    == ConW * char_stride
fb_height   == ConH * FONT_HEIGHT * Scale

(* The cell written last wins; every address is written once. *)
Stored(writes) == [a \in {w[1] : w \in writes} |-> (CHOOSE w \in writes : w[1] = a)[2]]

(* The atlas built by vidconsole_init(): which pixels are ink. *)
Atlas(f) ==
  LET bytes == unrle(font_data(f)) IN
  Stored({<<ch * char_size + y * char_stride + Scale * x + s,
            (bytes[ch * FONT_HEIGHT + y + 1] \div 2 ^ (FONT_WIDTH - 1 - x)) % 2 = 1>> :
            ch \in Code, y \in 0 .. FONT_HEIGHT - 1, x \in 0 .. FONT_WIDTH - 1, s \in 0 .. Scale - 1})
AtlasOf == [f \in Fonts |-> Atlas(f)]

Blank == [ch |-> 32, fg |-> "default_fg", bg |-> "default_bg"]
ConInit == [pos \in 0 .. ConW * ConH - 1 |-> Blank]
vidconsole_set_xy(x, y, ch, fg, bg) == <<x + y * ConW, [ch |-> ch, fg |-> fg, bg |-> bg]>>

Question == 63
Drawable(ch) == IF ch > FONT_CHARS THEN Question ELSE ch
vidconsole_redraw(c, atlas) ==
  LET con_p(x, y) == fb_width * y * FONT_HEIGHT * Scale + x * char_stride
      painted == 0 .. Vec * (char_stride \div Vec) - 1
  IN UNION {LET cell == c[y * ConW + x]   ch == Drawable(cell.ch) IN
              {<<con_p(x, y) + fb_width * (Scale * cy + s) + n,
                 IF atlas[char_size * ch + char_stride * cy + n] THEN cell.fg ELSE cell.bg>> :
                 cy \in 0 .. FONT_HEIGHT - 1, s \in 0 .. Scale - 1, n \in painted} :
              x \in 0 .. ConW - 1, y \in 0 .. ConH - 1}
-----------------------------------------------------------------------------
(* boot_gui(): the lines' texts and colours, in BuildMenu's order. *)
TextLine(text, fg, active_fg) == [text |-> text, fg |-> fg, active_fg |-> active_fg]
EmptyLine == TextLine(<<>>, "none", "none")
ConfLines(c, d, base) ==
  LET ids == ConfIds(c, d, base)
  IN [k \in 1 .. Len(ids) |-> TextLine(Text(ids[k]), "normal", "default")]
MenuLines(c) ==
  (IF "emmc" \in c.fs \/ c.src # "MMC2"
     THEN <<TextLine(Text(EmmcText), "emmc", "emmc")>> \o ConfLines(c, "emmc", 0)
          \o (IF c.src # "MMC2" THEN <<TextLine(Text(BOOTSEL_EMMC), "normal", "default")>> ELSE <<>>)
          \o <<EmptyLine>>
     ELSE <<>>)
  \o (IF "sd" \in c.fs
        THEN <<TextLine(Text(SdText), "sd", "sd")>> \o ConfLines(c, "sd", NConf) \o <<EmptyLine>>
        ELSE <<>>)
  \o <<TextLine(Text(Privacy), "grey", "default"), TextLine(Text(BOOTSEL_FEL), "fel", "default"),
       TextLine(Text(BOOTSEL_POWEROFF), "poweroff", "poweroff")>>

(* strbuf.c: a buffer of FooterSize bytes that ignores what does not fit. *)
strbuf_putc(b, ch) == IF Len(b) < FooterSize - 1 THEN Append(b, ch) ELSE b
strbuf_puts(b, s) ==
  LET upto[k \in 0 .. Len(s)] == IF k = 0 THEN b ELSE strbuf_putc(upto[k - 1], s[k])
  IN upto[Len(s)]
strbuf_uint(b, v) == LET d == digits(v, 10) IN strbuf_puts(b, [k \in 1 .. Len(d) |-> 48 + d[k]])

(* The bottom line: version and boot source, then the battery.  83 is S,   *)
(* 85 is U, 37 is the percent sign; 0x13 .. 0x18 are pictures.             *)
Footer(b) ==
  LET start == strbuf_puts(<<>>, Text(VersionText))
      flagS == IF b.safe THEN strbuf_putc(start, 83) ELSE start
      flagU == IF b.uvlo THEN strbuf_putc(flagS, 85) ELSE flagS
      icons == strbuf_putc(strbuf_putc(flagU, 24 - (IF b.charging THEN 1 ELSE 0)),
                           19 + ((b.cap * 3) \div 100))
  IN IF ~b.present THEN strbuf_puts(start, Text(NoBatText))
     ELSE IF b.cap < 0 THEN flagU
     ELSE strbuf_puts(strbuf_uint(strbuf_putc(icons, 32), b.cap), <<37>>)
FooterFg(b) == IF b.present /\ ~b.safe /\ ~b.uvlo /\ b.cap > 30 THEN "footer" ELSE "bad"
-----------------------------------------------------------------------------
(* gui_menu_update(), drawing.  One cell: the frame, over it the scroll    *)
(* arrows, over them the titles, over them the line.                       *)
FrameCh(x, y) ==
  LET left == x = 0   right == x = ConW - 1   top == y = 0   bottom == y = ConH - 1 IN
  CASE left /\ top -> 8 [] left /\ bottom -> 10 [] right /\ top -> 11 [] right /\ bottom -> 14
    [] (left \/ right) /\ ~top /\ ~bottom -> 2
    [] (top \/ bottom) /\ ~left /\ ~right -> 7
    [] OTHER -> 32
Shade == "shade"
Plain(x, y) == [ch |-> FrameCh(x, y), fg |-> "green", bg |-> Shade]

Arrow(cell, x, y, top) ==
  IF N <= ScrollHeight \/ x # ConW - 1 THEN cell
  ELSE IF y = 2 /\ top > 0 THEN [cell EXCEPT !.ch = 30, !.fg = "white"]
  ELSE IF y = ConH - 3 /\ top < N - ScrollHeight THEN [cell EXCEPT !.ch = 31, !.fg = "white"]
  ELSE cell

Titled(cell, x, y) ==
  LET title == IF y = 0 THEN Text(TitleText) ELSE Footer(bat) IN
  IF y \notin {0, ConH - 1} THEN cell
  ELSE CASE x = 2 -> [cell EXCEPT !.ch = 17]
         [] x \in 3 .. Len(title) + 2 ->
              [cell EXCEPT !.ch = title[x - 2], !.fg = IF y = 0 THEN "header" ELSE FooterFg(bat)]
         [] x = Len(title) + 3 -> [cell EXCEPT !.ch = 18]
         [] OTHER -> cell

(* The line drawn in row y: with scroll_top negative, items[-1] as well. *)
LineAt(y, top) ==
  LET i == y - 2 + top IN
  IF y \notin 2 .. ConH - 3 \/ i >= N THEN EmptyLine
  ELSE IF i < 0 THEN TextLine(junk, "junk", "junk") ELSE MenuLines(card)[i + 1]
LineFg(y, top) ==
  LET i == y - 2 + top IN
  IF i \in Line /\ active[i] THEN LineAt(y, top).active_fg ELSE LineAt(y, top).fg

Lettered(cell, x, y, sel, top) ==
  LET text == LineAt(y, top).text
      fg   == LineFg(y, top)
  IN IF x \notin 2 .. ConW - 3 \/ x - 2 >= Len(text) THEN cell
     ELSE IF y - 2 + top = sel THEN [ch |-> text[x - 1], fg |-> Shade, bg |-> fg]
     ELSE [cell EXCEPT !.ch = text[x - 1], !.fg = fg]

Draw(sel, top) ==
  Stored({LET c == Lettered(Titled(Arrow(Plain(x, y), x, y, top), x, y), x, y, sel, top)
          IN vidconsole_set_xy(x, y, c.ch, c.fg, c.bg) : x \in 0 .. ConW - 1, y \in 0 .. ConH - 1})

gui_menu_update(dir) ==
  /\ Update(dir)
  /\ IF changed \/ selection' # selection \/ scroll_top' # scroll_top
       THEN con' = Draw(selection', scroll_top') /\ fb' = vidconsole_redraw(con', AtlasOf[font])
       ELSE UNCHANGED <<con, fb>>
  /\ changed' = FALSE
  /\ UNCHANGED <<font, bat, junk, rtcsel_def, priv_flag, active>>

(* gui_menu_set_active(): every boot entry, and the menu is drawn again. *)
gui_menu_set_active_quiet(id) ==
  /\ active' = [i \in Line |-> IF IdAt(i) <= BOOTSEL_LAST THEN IdAt(i) = id ELSE active[i]]
  /\ UNCHANGED changed
gui_menu_set_active(id) ==
  /\ active' = [i \in Line |-> IF IdAt(i) <= BOOTSEL_LAST THEN IdAt(i) = id ELSE active[i]]
  /\ changed' = TRUE

(* boot_gui() on a long press: the privacy flag, or the default.  What     *)
(* rtc_bootsel_set() writes holds the default alone.                       *)
LongPress ==
  /\ IF IdAt(selection) = Privacy
       THEN /\ active' = [active EXCEPT ![selection] = ~@] /\ changed' = TRUE
            /\ priv_flag' = active'[selection] /\ UNCHANGED rtcsel_def
       ELSE /\ rtcsel_def' = IF IdAt(selection) = BOOTSEL_POWEROFF THEN -1 ELSE IdAt(selection)
            /\ gui_menu_set_active(rtcsel_def') /\ priv_flag' = FALSE
  /\ UNCHANGED <<menuVars, font, bat, junk, con, fb>>

(* Before boot_gui(), and what it sets up before its loop. *)
NoMenu ==
  /\ card = CHOOSE c \in Cards : TRUE
  /\ items = <<>> /\ selection = 0 /\ scroll_top = 0 /\ selection_changed = FALSE
  /\ font = CHOOSE f \in Fonts : TRUE
  /\ bat = (CHOOSE b \in Bats : TRUE) /\ junk = <<>>
  /\ rtcsel_def = -1 /\ priv_flag = FALSE /\ active = <<>> /\ changed = FALSE
  /\ con = <<>> /\ fb = {}
boot_gui(def, flag) ==
  LET start == IF def >= 0 THEN def ELSE IF "emmc" \notin card'.fs THEN NConf ELSE 0 IN
  /\ card' \in Cards
  /\ items' = BuildMenu(card')
  /\ selection' = SetSelection(items', start, 0)
  /\ scroll_top' = 0 /\ selection_changed' = FALSE
  /\ rtcsel_def' = def /\ priv_flag' = flag
  /\ active' = [i \in 0 .. Len(items') - 1 |->
                  \/ items'[i + 1] = Privacy /\ flag
                  \/ def >= 0 /\ items'[i + 1] = def]
  /\ changed' = TRUE
  /\ con' = ConInit /\ fb' = {}
  /\ font' \in Fonts /\ bat' \in Bats /\ junk' \in Junks
-----------------------------------------------------------------------------
(* The cell's square of the framebuffer shows the glyph the font file      *)
(* draws for ch, in these colours.                                         *)
Legible(x, y, ch, fg, bg) ==
  \A py \in 0 .. FONT_HEIGHT - 1, px \in 0 .. FONT_WIDTH - 1, sy \in 0 .. Scale - 1, sx \in 0 .. Scale - 1 :
    <<((y * FONT_HEIGHT + py) * Scale + sy) * fb_width + (x * FONT_WIDTH + px) * Scale + sx,
      IF font[IF ch \in Code THEN ch ELSE Question][py][px] THEN fg ELSE bg>> \in fb

(* The lines in another colour: the default as the RTC keeps it, and the   *)
(* privacy mode as it was when the menu came up or was last switched.      *)
Marked(i) == IF IdAt(i) = Privacy THEN active[i] ELSE IdAt(i) >= 0 /\ IdAt(i) = rtcsel_def

(* After every gui_menu_update() the pixels show, for every line of the    *)
(* window, as much of its text as fits and nothing else in its row, the    *)
(* cursor's line inverted, the default as the RTC has it, the privacy mode *)
(* as last switched; an arrow exactly where lines are hidden; and the      *)
(* bottom title is the beginning of the footer's text.                     *)
LinesReadable ==
  \A i \in Line \cap scroll_top .. scroll_top + ScrollHeight - 1 :
    LET l == MenuLines(card)[i + 1]
        y == 2 + i - scroll_top
        fg == IF Marked(i) THEN l.active_fg ELSE l.fg
    IN \A x \in 2 .. ConW - 3 :
         IF x - 2 >= Len(l.text) THEN Legible(x, y, 32, "green", Shade)
         ELSE IF i = selection THEN Legible(x, y, l.text[x - 1], Shade, fg)
         ELSE Legible(x, y, l.text[x - 1], fg, Shade)
Edge(y, more, arrow) ==
  IF more THEN Legible(ConW - 1, y, arrow, "white", Shade) ELSE Legible(ConW - 1, y, 2, "green", Shade)
ArrowsRight ==
  /\ Edge(2, scroll_top > 0, 30)
  /\ Edge(ConH - 3, scroll_top + ScrollHeight < N, 31)
FooterText ==
  Text(VersionText)
  \o (IF ~bat.present THEN Text(NoBatText)
      ELSE (IF bat.safe THEN <<83>> ELSE <<>>) \o (IF bat.uvlo THEN <<85>> ELSE <<>>)
           \o (IF bat.cap < 0 THEN <<>>
               ELSE <<IF bat.charging THEN 23 ELSE 24, 19 + ((bat.cap * 3) \div 100), 32>>
                    \o (IF bat.cap = 100 THEN <<49, 48, 48>>
                        ELSE (IF bat.cap >= 10 THEN <<48 + (bat.cap \div 10)>> ELSE <<>>)
                             \o <<48 + (bat.cap % 10)>>)
                    \o <<37>>))
FooterRight ==
  \A k \in 1 .. MinOf(Len(FooterText), FooterSize - 1) :
    k + 2 < ConW => Legible(k + 2, ConH - 1, FooterText[k], FooterFg(bat), Shade)
ScreenRight ==
  /\ LinesReadable /\ ArrowsRight /\ FooterRight
  /\ Cardinality(fb) = fb_width * fb_height
=============================================================================
