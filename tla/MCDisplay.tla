----------------------------- MODULE MCDisplay ------------------------------
(* A panel of 4 x 3 pixels, one full screen picture and one more plane,    *)
(* as main(), boot_gui() and the test program dtest.c set them up.         *)
EXTENDS Display

Rect(x, y, w, h) == [x |-> x, y |-> y, w |-> w, h |-> h]
Unused == [fb |-> "none", src |-> Rect(0, 0, 0, 0), dst |-> Rect(0, 0, 0, 0)]
Screen == [fb |-> "screen", src |-> Rect(0, 0, 4, 3), dst |-> Rect(0, 0, 4, 3)]
Menu(i, s, d) == [k \in Planes |-> IF k = 0 THEN Screen
                                   ELSE IF k = i THEN [fb |-> "menu", src |-> s, dst |-> d]
                                   ELSE Unused]
MCFbSize == [f \in {"screen", "menu", "gui"} |-> CASE f = "screen" -> [w |-> 4, h |-> 3]
                                                   [] f = "menu"   -> [w |-> 4, h |-> 4]
                                                   [] f = "gui"    -> [w |-> 2, h |-> 2]]
Alone == [k \in Planes |-> IF k = 0 THEN Screen ELSE Unused]
(* boot_gui() shows the picture, the menu over it, and then goes on or     *)
(* takes the menu away.  dtest.c shows everything unscaled first; then a   *)
(* plane that is not scaled, at every place around the panel, or one       *)
(* scaled up or down, or none.                                             *)
WithMenu == [Alone EXCEPT ![1] = MenuPlane("gui", MCFbSize["gui"])]
Moved ==
  {Menu(1, Rect(1, 0, 3, 2), Rect(x, y, 3, 2)) : x \in -3 .. 4, y \in {-1, 2}}
  \cup {Menu(2, Rect(0, 0, 4, 4), Rect(x, 0, w, h)) : x \in {-2, 1}, w \in {2, 8}, h \in {2, 4}}
  \cup {Menu(2, Rect(0, 0, 4, 3), Rect(-2, -1, 8, 6)), Alone}
MCDisplays ==
  [splash |-> << {Alone} >>,
   gui    |-> << {Alone}, {WithMenu}, {Alone, WithMenu} >>,
   dtest  |-> << {Alone}, Moved >>]
Shortest == [c \in {"splash", "gui", "dtest"} |-> << {Alone} >>]
=============================================================================
