----------------------------- MODULE Compositor -----------------------------
(***************************************************************************)
(* display_commit(): from the planes the program asks for to the registers *)
(* of the mixer, and what the mixer shows for given registers.             *)
(*                                                                         *)
(* A plane is a rectangle src of a framebuffer fb ("none": fb_start is 0)  *)
(* shown, scaled, in the rectangle dst, which may stick out of the panel.  *)
(* A rectangle is [x, y, w, h].  Alpha and pixel formats are left out, and *)
(* registers that are always written alike.                                *)
(*                                                                         *)
(* A definition X_y in front of X is a faulty variant of X, there only to  *)
(* see that the properties notice it; nothing uses it.                     *)
(***************************************************************************)
EXTENDS Integers, Sequences, FiniteSets, TLC

CONSTANTS PANEL_WIDTH, PANEL_HEIGHT
ASSUME PanelAssumption == PANEL_WIDTH \in Nat \ {0} /\ PANEL_HEIGHT \in Nat \ {0}

Planes == 0 .. 2
NoSize == [w |-> 0, h |-> 0]
clamp(n, lo, hi) == IF n < lo THEN lo ELSE IF n > hi THEN hi ELSE n
(* udiv of the A64: a division by zero gives zero.  The unused planes of   *)
(* every commit divide by their dst_w = 0.                                 *)
udiv(a, b) == IF b = 0 THEN 0 ELSE a \div b

(* Where gui_menu_update() puts the menu, of the size of its framebuffer:  *)
(* as far from the lower edge as from the sides.                           *)
MenuPlane(fb, size) ==
  LET x == (PANEL_WIDTH - size.w) \div 2
  IN [fb |-> fb, src |-> [x |-> 0, y |-> 0, w |-> size.w, h |-> size.h],
      dst |-> [x |-> x, y |-> PANEL_HEIGHT - size.h - x, w |-> size.w, h |-> size.h]]

(* The part of one side of dst that is on the panel: how much is cut off   *)
(* in front, where it starts, how long it is.                              *)
Clip(x, w, size) ==
  LET o == IF x < 0 THEN -x ELSE 0   at == clamp(x, 0, size)
  IN [o |-> o, at |-> at, len |-> clamp(w - o, 0, size - at)]

(* What is left of the plane: the source cut in the scale of the plane.    *)
Clipped(p) ==
  LET x == Clip(p.dst.x, p.dst.w, PANEL_WIDTH)
      y == Clip(p.dst.y, p.dst.h, PANEL_HEIGHT)
  IN [src |-> [x |-> p.src.x + udiv(x.o * p.src.w, p.dst.w),
               y |-> p.src.y + udiv(y.o * p.src.h, p.dst.h),
               w |-> udiv(x.len * p.src.w, p.dst.w), h |-> udiv(y.len * p.src.h, p.dst.h)],
      dst |-> [x |-> x.at, y |-> y.at, w |-> x.len, h |-> y.len]]
Visible(p) == p.fb # "none" /\ Clipped(p).src.w # 0 /\ Clipped(p).src.h # 0

(* The step of the scaler with 20 fractional bits; the scaler is off when  *)
(* the sizes are equal, which is the step of one pixel.                    *)
One == 2 ^ 20
Step(src, dst) == (One * src) \div dst
Unscaled == [h |-> One, v |-> One]
-----------------------------------------------------------------------------
(* The mixer's registers: of the overlay of a plane, of an input pipe of   *)
(* the blender, and one of a kind.  fcolor_ctl has a bit for each pipe in  *)
(* use: here their number.                                                 *)
Cleared ==
  [r \in {"attr", "top_laddr", "pitch", "size", "ovl_size", "scale", "insize", "offset"} \X Planes |->
     CASE r[1] = "attr" -> FALSE [] r[1] = "pitch" -> "none" [] r[1] = "scale" -> Unscaled
       [] r[1] = "top_laddr" -> [fb |-> "none", x |-> 0, y |-> 0]
       [] r[1] = "offset" -> [x |-> 0, y |-> 0] [] OTHER -> NoSize]
  @@ [r \in {<<"output_size", 0>>, <<"glb_size", 0>>} |-> NoSize]
  @@ (<<"route", 0>> :> <<>>) @@ (<<"fcolor_ctl", 0>> :> 0)

(* One turn of the loop over the planes, write by write.  The scaler is    *)
(* only compiled in with DE2_RESIZE.                                       *)
Pipe_gap(d, i) == i
Pipe(d, i) == Cardinality({j \in 0 .. i - 1 : Visible(d[j])})
PlaneWrites(d, i, resize) ==
  LET p == d[i]   c == Clipped(p)   k == Pipe(d, i)
      src == [w |-> c.src.w, h |-> c.src.h]   dst == [w |-> c.dst.w, h |-> c.dst.h]
      scale(s) == IF resize THEN << <<<<"scale", i>>, s>> >> ELSE <<>>
  IN IF ~Visible(p) THEN << <<<<"attr", i>>, FALSE>> >> \o scale(Unscaled)
     ELSE << <<<<"attr", i>>, TRUE>>, <<<<"top_laddr", i>>, [fb |-> p.fb, x |-> c.src.x, y |-> c.src.y]>>,
             <<<<"pitch", i>>, p.fb>>, <<<<"size", i>>, src>>, <<<<"ovl_size", i>>, src>> >>
          \o (IF i = 0 THEN << <<<<"output_size", 0>>, dst>>, <<<<"glb_size", 0>>, dst>> >> ELSE <<>>)
          \o << <<<<"insize", k>>, dst>>, <<<<"offset", k>>, [x |-> c.dst.x, y |-> c.dst.y]>> >>
          \o scale([h |-> Step(src.w, dst.w), v |-> Step(src.h, dst.h)])

(* What is written after the loop; the last write lets the next frame take *)
(* it all.                                                                 *)
Shows(d) == SelectSeq(<<0, 1, 2>>, LAMBDA i : Visible(d[i]))
BlendWrites(d) ==
  << <<<<"route", 0>>, Shows(d)>>, <<<<"fcolor_ctl", 0>>, Len(Shows(d))>> >>
Writes_eager(d, resize) ==
  BlendWrites(d) \o PlaneWrites(d, 0, resize) \o PlaneWrites(d, 1, resize) \o PlaneWrites(d, 2, resize)
Writes(d, resize) ==
  PlaneWrites(d, 0, resize) \o PlaneWrites(d, 1, resize) \o PlaneWrites(d, 2, resize) \o BlendWrites(d)
-----------------------------------------------------------------------------
Inside(x, y, at, size) == x \in at.x .. at.x + size.w - 1 /\ y \in at.y .. at.y + size.h - 1
Background == [fb |-> "none", x |-> 0, y |-> 0]
Top(S) == CHOOSE n \in S : \A m \in S : m <= n

(* The pipes that are on, and their planes. *)
Blended(r) == {k \in 0 .. Len(r[<<"route", 0>>]) - 1 : k < r[<<"fcolor_ctl", 0>>] /\ r[<<"attr", r[<<"route", 0>>][k + 1]>>]}
(* The mixer (external): the topmost pipe at a place of the output gives   *)
(* the pixel its plane reads there; garbage when the plane's registers do  *)
(* not fit together.                                                       *)
MixerPixel(r, x, y) ==
  LET hit == {k \in Blended(r) : Inside(x, y, r[<<"offset", k>>], r[<<"insize", k>>])}
      out == [w |-> r[<<"output_size", 0>>].w, h |-> r[<<"glb_size", 0>>].h]
      k == Top(hit)   i == r[<<"route", 0>>][k + 1]   addr == r[<<"top_laddr", i>>]
      dx == ((x - r[<<"offset", k>>].x) * r[<<"scale", i>>].h) \div One
      dy == ((y - r[<<"offset", k>>].y) * r[<<"scale", i>>].v) \div One
  IN IF hit = {} \/ x >= out.w \/ y >= out.h THEN Background
     ELSE IF r[<<"pitch", i>>] # addr.fb \/ ~(dx < r[<<"size", i>>].w /\ dy < r[<<"ovl_size", i>>].h)
     THEN [fb |-> "garbage", x |-> x, y |-> y]
     ELSE [fb |-> addr.fb, x |-> addr.x + dx, y |-> addr.y + dy]

(* What the planes ask for at a place of the panel.                        *)
AskedPixel(d, x, y) ==
  LET hit == {i \in Planes : d[i].fb # "none" /\ Inside(x, y, d[i].dst, d[i].dst)}
      p == d[Top(hit)]
  IN IF hit = {} THEN Background
     ELSE [fb |-> p.fb, x |-> p.src.x + (((x - p.dst.x) * p.src.w) \div p.dst.w),
                        y |-> p.src.y + (((y - p.dst.y) * p.src.h) \div p.dst.h)]
=============================================================================
