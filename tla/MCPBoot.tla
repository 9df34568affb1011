------------------------------ MODULE MCPBoot ------------------------------
(* PBoot on small media: two configurations per bootfs. *)
EXTENDS PBoot

Tab(a, b) == [i \in Conf |-> IF i = 0 THEN a ELSE b]
Media(sdl, el, sd, emmc) ==
  [build  |-> "gui",
   loader |-> [d \in Dev |-> IF d = "sd" THEN sdl ELSE el],
   fs     |-> [d \in Dev |-> (IF d = "sd" THEN sd ELSE emmc) # <<>>],
   conf   |-> [d \in Dev |->
                LET t == IF d = "sd" THEN sd ELSE emmc IN
                IF t = <<>> THEN Tab("none", "none") ELSE Tab(t[1], t[2])]]

(* The same media with p-boot-serial or p-boot-tiny on them. *)
Without(media) == {[l EXCEPT !.build = "serial"] : l \in media}

(* Empty phones, one or two bootfs, holes in the tables, broken images,    *)
(* and another bootloader on either medium.                                *)
GuiLayouts ==
  { Media("none", "none", <<>>, <<>>),
    Media("none", "pboot", <<>>, <<>>),
    Media("none", "pboot", <<>>, <<"good", "bad">>),
    Media("pboot", "other", <<"none", "good">>, <<>>),
    Media("pboot", "none", <<"good", "none">>, <<"none", "none">>),
    Media("pboot", "pboot", <<"good", "good">>, <<"good", "noatf">>),
    Media("pboot", "pboot", <<"none", "none">>, <<"none", "good">>),
    Media("other", "pboot", <<"good", "good">>, <<"good", "good">>),
    Media("none", "other", <<>>, <<"good", "none">>) }
AllLayouts == GuiLayouts \cup Without(GuiLayouts)

(* Phones on which every way out of the menu exists and eMMC does not hold *)
(* p-boot, so that a default of BOOTSEL_EMMC leaves p-boot.                *)
GuiOneLoader ==
  { Media("pboot", "other", <<"good", "bad">>, <<"none", "good">>),
    Media("pboot", "none", <<"noatf", "none">>, <<>>) }

OneLoaderLayouts == GuiOneLoader \cup Without(GuiOneLoader)

AllOpts == {0, 1, 2, 3, 4, 5, 6, 64, FelCode, EmmcCode}
AllDefs == {1, 3, 6, 7, 255}
=============================================================================
