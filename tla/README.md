# A TLA+ model of p-boot

p-boot is a bootloader for the PinePhone: it is started by the A64's boot ROM,
brings up clocks, memory, cards and display, finds a small file system (bootfs)
on SD or eMMC, picks one of its boot configurations, loads the images, edits the
device tree and enters the firmware, or shows a menu. `p-boot-conf` writes that
file system on the host.

This directory holds TLA+ modules for all of that: what survives a reset, the
watchdog, missing or slow cards, the order of fallbacks, interrupts and
deadlines in the menu, the card and its controller as parties of their own, the
device tree in its buffer, memory detection, the panel's set-up, planes against
the running frame, and text on its way to the eye. TLC checks them on small
instances; TLAPS proves the main invariants of eight of the modules for every
value of the constants. One run ends in a violation: there the code does not do
what its comment says. Where else code and documentation differ, a property names
the exception (section 3).

Paths below are relative to the repository (`src/main.c` is the file that
`PROJECT.json` calls `src/src/main.c`).

## 1. Inventory

| Part | State | Operations | Interacts through |
|---|---|---|---|
| start32 stub (`src/start32.c`) | none; reads RTC 0x104 | jump to FEL, to the boot ROM's eMMC path, or into p-boot | RTC 0x104 |
| main (`src/main.c`) | `globals`, `fs`, `sbc`, `bootsel`; RTC 0x100 (default, privacy), RTC 0x104 (one-shot option) | `main_sram_only`, `main` (two builds), `bootfs_select_configuration`, `mmc_try_load`, `boot_selection`, `reboot_to`, `soc_reset` | calls into everything below; registers that survive a reset |
| watchdog, panic | watchdog counter | `wdog_ping` (once), `wdog_disable`, `panic_shutdown`, `pmic_poweroff` | resets everything but RTC, PMIC and media |
| menu widget (`src/gui.c`) | `items`, `selection`, `scroll_top`, `changed` | `gui_menu_add_item`, `gui_menu_set_selection`, `gui_menu_update` | events of the round; the console's cells |
| menu loop (`boot_gui`, `gui_get_events`) | `state`, `boot_sel`, `end`, `rtcsel`, key timers | one round: vblank, PMIC interrupt, keys, deadline, POK actions | PMIC interrupt flags, R_INTC latch, RTC 0x100, display |
| bootfs reader (`src/storage.c`) | partition list, superblock and tables | `bootfs_open`, `bootfs_load_image`, `bootfs_load_file`, `mmc_read_data` | MMC reads |
| p-boot-conf (`src/conf.c`) | list of data, 32 configurations, files | parse, write a bootfs | the medium the bootloader reads |
| boot images, device tree (`src/main.c`, libfdt) | image destinations, the blob and its free space | `load_splash`, `boot_prepare`, edits, `boot_finalize`, `jump_to_atf` | DRAM layout, bootfs, libfdt |
| MMC stack (`uboot/drivers/mmc`) | `struct mmc`, controller registers, DMA descriptors | `mmc_init`, `mmc_bread`, `sunxi_mmc_send_cmd_common` | commands and data to a card; DMA beside the caches |
| clocks, DRAM, MMU (`uboot/arch/arm/mach-sunxi`, `src/ccu.c`, `src/mmu.c`) | controller configuration, detected geometry | `sunxi_dram_init`, `clock_set_pll11`, `mmu_setup` | aliases in the memory itself |
| timer (`generic_timer.c`, `lib/time.c`) | the SoC's counter | `udelay` | a counter that may read wrong |
| display (`src/display.c`) | DSI, TCON, mixer registers; panel | `display_init` (two paths), `display_commit`, `display_frame_done` | PMIC, panel, frames |
| PMIC/RSB (`src/pmic.c`) | bus and PMIC registers | read, write, set bits, power off | may time out or fail |
| console, log, strings (`src/debug.c`, `vidconsole.c`, `strbuf.c`, `lib.c`) | log, screen cells, glyph atlas | `printf`, `append_log`, `vidconsole_putc`, `vidconsole_redraw` | serial port, memory, display |
| font tool (`src/fonts/mkbin.c`) | | `rle` | the font inside p-boot |
| display test (`src/dtest.c`) | | set-up and commits of its own | display |

What is hard here:

* **Resets at any point.** The user, the OS, the watchdog and p-boot itself
  restart the SoC; only two RTC registers, the PMIC, the panel and the media
  survive. A request written before a reset is read by a different program
  (start32) after it, possibly one on another medium; the panel may be met in
  any state.
* **One watchdog ping** has to cover everything until the hand-over, a panic of
  7.7 s included, while the duration of card accesses is not known.
* **Partial failure.** Each card, the PMIC bus and even the watchdog may fail
  on their own; several callers use a result without a check, and the device
  tree edits ignore their errors.
* **Hardware that runs on its own**: the card and the DMA engine go on after
  the driver has given up, caches write back when they like, a frame is taken
  in the middle of a commit, the PMIC raises another flag while one is handled.
* **The menu loop** polls a level interrupt, clears flags in two places, and
  races keys, power key, vblank and a deadline against each other.
* **Numeric edges** in list and window arithmetic, in the partition search, in
  address mapping, timings, clipping and scaling.

What makes each part correct is stated as the properties of section 4; the
hazards are listed with their lines in `PROJECT.json`.

## 2. Modules

| Module | Models | State and actions |
|---|---|---|
| `PBoot` | start32, main (both builds), watchdog, panic, resets, the menu by outcome | one variable per surviving register or global; one action per stretch of code between two points at which the outside can interfere |
| `GuiMenu` | the menu widget and the list `boot_gui` builds | `Update(dir)` is one `gui_menu_update` |
| `BootMenu` (extends `GuiMenu`) | `boot_gui`'s loop and `gui_get_events` | a round is `ReadIrq`, `AckIrq`, then `Round` or `Switch`; `PmicEvent`, `PressKey`, `ReleaseKey`, `FrameDone`, `Tick` are the outside |
| `MenuScreen` (extends `GuiMenu`, `Lib`) | font packing and unpacking, drawing of the menu, painting of cells | operators on cells and pixels |
| `Console` (extends `MenuScreen`) | `printf`, log, video console; the menu's rounds | one step per directive in the builds that print, menu rounds in the one that does not |
| `Lib` | byte loops of `lib.c`, decimal digits | operators |
| `BootfsSpec` | what `bootfs_open` promises | one atomic step, and that it comes |
| `Bootfs` | `bootfs_open`, slot by slot | `ReadMbr`, `Collect`, `Search`; where the memory behind its list is zero, implements `BootfsSpec` with `opened <- (pc = "done")` |
| `BootfsLayout` | bootfs as its reader sees it | operators on a device |
| `ConfTool` (extends `BootfsLayout`) | p-boot-conf | parsing line by line, one action per write, kill and power loss between any two |
| `Mmc` | `mmc_init` and the mode selection | one action per command or group of settings; the card keeps its own state |
| `SunxiMmc` | reading blocks | driver, card, DMA engine and cache as four parties |
| `Fdt` | the functions of libfdt p-boot reaches | operators on a blob with limited space |
| `BootTree` (extends `Fdt`) | from the chosen configuration to ATF | one action per loading step or group of edits with its early return |
| `Dram` | `sunxi_dram_init`, memory layout, MMU attributes | one action per training or probing step |
| `Timer` | `udelay` on the A64's counter | operators |
| `Dsi` | register values and packets of both DSI paths | operators |
| `Compositor` | `display_commit`'s register writes in their order; what the mixer shows of the registers | operators |
| `Display` (extends the last three) | clocks, PMIC, panel, mixer from reset to a lit screen | one action per function or stretch between delays; one per register write of a commit; `Vblank` and `Restart` are the outside |
| `PBootProofs`, `BootfsProofs`, `BootMenuProofs`, `ConfToolProofs`, `MmcProofs`, `SunxiMmcProofs`, `BootTreeProofs`, `DramProofs` | | theorems about the module each is named after |
| `MC*` | | media, cards, trees, fonts and other constants for TLC |

How they fit. `Bootfs` justifies `PBoot!MmcTryLoad`, which only uses that
`bootfs_open` gives a bootfs or NULL; `MmcFaults` there covers both a card that
does not answer and the bootfs that `bootfs_open` may miss. `ConfTool` composes
the writer with the reader of `BootfsLayout`. `Mmc` establishes that card and
host agree, from which `SunxiMmc` starts. `Dram`'s `LayoutSound` gives
`BootTree` the memory it lays images into. `BootMenu` details the actions
`MenuSetDefault`, `MenuBoot`, `MenuReboot` and `MenuOff` of `PBoot`; its
`outcome` values are exactly those actions. `Console` draws the widget of
`GuiMenu`, `Display` shows the framebuffer that is drawn into.

Abstractions worth knowing:

* **PBoot.** RTC 0x104 is `NoOpt` unless its upper half is 0xb001, else its
  lower half. RTC 0x100 is its low byte (privacy is `BootMenu`'s concern). A
  configuration is absent (no `:BFCONF:`), good (though the reading of its images
  may fail: panic 12), bad (an image is missing or unusable: panic 12 or 13) or without a working firmware (panic 5). Every step
  that reads a card takes a time out of `MmcDelays`; if that is not less than
  what is left of the watchdog, the step is a reset instead, wherever in it the
  bite comes (what a step writes before its first card access is written).
  The boot ROM, PMIC power-up, OS and FEL host are external.
  A NULL bootfs that is dereferenced ends in `hung` or, where the code only
  reads through it, goes on: which one depends on what is mapped at 0.
* **BootMenu.** Time is in ticks; timers hold the time left, so the model is
  finite without a bound on time. The PMIC's six status registers are the three
  power key flags and one "other". A failed read yields what the code makes of
  the error number. Where several functions share a register (RTC 0x100), the
  parts are separate variables and each function writes what it writes.
* **Bootfs.** `parts[i].is_boot` behind the end of the list is any member of `Behind`.
* **Mmc.** A lost command and a lost response look the same to the driver. The
  modes are those of the build (`CONFIG_IS_ENABLED` asks for `CONFIG_SPL_...`,
  so no UHS, HS200, HS400 or writing). `MmcAssumption` says what a card is: the
  CSD gives the size of every SD card and of an MMC up to 2 GiB, an MMC that is
  larger is of version 4.2 and gives it in the extended CSD; the CSD's clock is
  one the controller can make; and the lines of an SD card of version 1.0 are
  wired, since the driver reads nothing over the new bus that would tell.
* **SunxiMmc.** Memory and card are counted in sectors. Fetches of the cache by
  speculation are left out (section 6).
* **Fdt, BootTree.** A value is a name with a length in words; the structure
  block is a sequence of tags, so every insertion moves what follows.
* **Dram.** Addresses count 512 bytes; a chip ignores lines it does not have.
* **Display.** Delays are what `udelay` guarantees with a counter that lies. What
  a PMIC access was to do is only done when it succeeds, also where the code
  looks at no result. The scaler is `dtest`'s (`DE2_RESIZE`, which configure.php
  sets for nothing else).
* **Console, MenuScreen.** Characters are codes, colours names; a font of two by
  two pixels per glyph.
* Definitions named `X_y` in front of a definition `X` are faulty variants of
  it (a dropped guard, a missing reset, an off-by-one); putting one in X's
  place makes the property that `PROJECT.json` names with it fail.

## 3. Where code, comments and documentation differ

The models follow the code. These are the places where a comment or a document
says something else, or where the code's limits shape the properties that hold.

Boot selection and life cycle (`PBoot`):

* Volume down without ENABLE_GUI, no option 1 anywhere, bootfs on SD: `goto
  try_conf0` (main.c:1514) keeps `sbc`, so the unchecked block 1 of SD is booted
  instead of falling back to configuration 0, against the order of the comment
  at main.c:1460. `BootPriority` holds with this as its only exception
  (`StaleAlternate`, which the run reaches); with ENABLE_GUI there is none.
* A default "bootloader on eMMC" with p-boot on eMMC resets for ever
  (main.c:1424). `PBootLive` uses media with one p-boot.
* A panic later than 2.3 s after `wdog_ping` ends in a reset, not in the
  power-off README:299 promises (main.c:951). `PanicPowersOff` is checked with
  fast cards.
* An option in RTC 0x104 survives a boot through the menu, which never calls
  `bootfs_select_configuration` (`OneShotConsumed` is about the other boots).
* With no bootfs anywhere `boot_gui` dereferences a NULL `fs` with the watchdog
  off (`HangsOnlyWhenLost`).

Menu (`GuiMenu`, `BootMenu`, `MenuScreen`):

* Storing a default clears the privacy flag the menu still shows (main.c:171),
  though the comment at main.c:1358 only says "mark current selection as default".
  `MenuReadable` therefore asks that a flag that is set is shown, not the reverse.
* Without a default and without configuration 0 the cursor starts on a header
  line, and a short press there boots selection -2 (`CursorSound` speaks of a
  cursor that is on an entry).
* A menu one line shorter than the window (16 lines) scrolls to -1, and the
  drawing loop reads `items[-1]`.
* A failed RSB read of the interrupt flags is taken for a short press
  (`ErrorFlags`).
* Two full tables make 72 menu lines for `items[64]`.

File system (`Bootfs`, `ConfTool`):

* `bootfs_open`'s comment (storage.c:155) says the list is gone through twice;
  the second pass reads `is_boot` of entries behind the list (storage.c:166), so
  a bootfs without boot flag may be missed. `BootfsSpec` promises both passes;
  `BootfsStale` finds `SecondPassSound` violated.
* README:231 says the default in the superblock is "unchanged by p-boot-conf";
  it writes a whole new superblock (conf.c:482).
* README:151 speaks of up to 33 configurations; there are 32 slots.
* A configuration without `name=` is refused although no document asks for it;
  files that find no free slot are dropped without an error.

Device tree and images (`BootTree`):

* The layout comment at main.c:621 puts the kernel at 0x40080000; it is loaded
  to 0x40000000 (`LINUX_IMAGE_PA`).
* "this also sets up reservation for FDT blob" (main.c:884): `fdt_shrink_to_minimum`
  removes an old reservation and adds one only if there was one.
* `fdt_fixup_wifi` keeps a path that points into the blob (main.c:510). When the
  first of its edits changes the length of a value in front of `/aliases`, the
  second does not find the node: `local-mac-address` is not patched, although
  README:282 says that p-boot patches the address. `TreeHandedOver` says that this
  is so exactly for such trees (`StalePath`).
* `get_mac_address` changes `globals->sid[3]` with each call; p-boot calls it
  once.

Hardware (`Mmc`, `Dram`, `Display`, `Timer`):

* `mmc_init` drops the result of `mmc_select_mode_and_width`; after a failure the
  card stays usable at the last settings that both sides have, or the read that
  follows fails. `InitSound` speaks of agreement when a mode was verified.
* PLL_DE is asked for 297 MHz and runs at 288; PLL11's multiplier has six bits
  and wraps above 768 MHz.
* pmic.c:285 says that DCDC2 has to be at 1.3 V before the CPU's clock is raised.
  The write that raises it (pmic.c:288) is not checked, and `ccu_upclock()`
  (main.c:1042) follows in any case. `HardwareReady` lists the CPU's clock among
  its exceptions, for a failed access only.
* An initramfs is loaded to 254 MiB (main.c:635); with 512 MiB of memory the heap
  starts at 256 MiB, so one of more than 2 MiB runs over it. PinePhones have 2 or
  3 GiB; `LayoutSound` says from which size on nothing that is accepted gets there.
* generic_timer.c:55 speaks of eleven bits, the code masks ten: it drops more
  values than needed, harmlessly.

Text (`Console`):

* A line feed after a full line leaves an empty line, except at the bottom.
* `put_int` ignores its padding argument; `%f` prints the fraction without
  leading zeros (debug.c:139), as the model's conversion does too.

## 4. Runs

`PBoot` (safety, all faults on, the builds with and without ENABLE_GUI).
`TypeOK`; `BootPriority`: what main boots is the first of the list of preferences
for the keys and registers this boot began with that is there, and everything
before it was looked for, but for the stale block of section 3; `WatchdogCovers`;
`OneShotConsumed`.
Bounds: 2 configurations per bootfs instead of 32 (the code treats the index
only by comparing it with 0, 1, 32 and 64, and every option 0..6 straddles these
bounds); nine media layouts with holes, bad images, missing bootfs and foreign
bootloaders; options and defaults that are in range, special, out of range;
delays of 0.1 s and 4 s, so that the watchdog may bite in the third access and
panics come early and late. The number of boots, resets and power cuts is not
bounded.

`PBootLive` (liveness). `Settles`, `PanicPowersOff`, `RebootReaches`, and
`HangsOnlyWhenLost`. Fairness: weak fairness of `SocStep` only, the processor
executing its code and the watchdog counting. The user, OS and host owe nothing.
Both builds are run. Faults, slow cards and a second p-boot are off (section 3 says what they do).

`BootMenu`. Two flags set by the PMIC and one volume key press at any time; the
deadline, debounce and repeat times are one tick each, the least that lets each
of them run out, be extended, or coincide with another. Two flags suffice for one that arrives within the handling of another.
Every PMIC transaction may fail: `PressesAccounted` says that presses are not
lost then either (a press may be handled twice when its acknowledgement fails).
`BootNotOverridden` needs that a frame ends more often than the deadline's
length, which `Tick` (a tick is longer than a frame) states. `CursorSound` runs
on a window of five lines over a list with holes. `MenuEnds` is under weak
fairness of the loop, strong fairness of time (it passes between rounds), no
finger that stays on a volume key for ever (a key held down repeats and extends
the deadline, as in the code), and `BusRecovers`: transactions do not fail for
ever, for a failing read counts as a press. The loop stops after its outcome, so
deadlock is not an error, here and in the other modules of code that returns.

`Bootfs`, `BootfsStale`. All tables of four slots and six kinds of partition, a
disk without MBR and one without signature. When the memory behind the list reads
as zero, `Implements` holds, the refinement of `BootfsSpec` with its `<>opened`
under weak fairness of the code's steps. Nothing in the code makes it zero (the
list is fresh from malloc(), what lies behind it in its allocation is never
written, and then come the bytes of the MBR): with any memory there `BootfsStale`
finds `SecondPassSound` violated. What is left then, that boot partitions are
searched in their order and only a bootfs is opened, is the theorem `BootFlagFirst`.

`ConfTool`. Three slots, blocks of two units, two files per block, files of 0 to
5 units (one under two paths, one empty, one missing); four valid configurations
and every variant of one with a line missing, doubled or replaced; directories
up to five files, which exceed the room that is left; a partition with an older
bootfs on it, and an image file. A kill leaves a prefix of the writes, a power
loss any subset of those not flushed, also after a kill. `KilledSound`: a block
the tool wrote leads to data it has written, since data comes first; in a fresh
image file that goes for all blocks, while an old block of a partition may by
then lead to new data, which nothing in the tool prevents. `PowerLossSound`: the
only barrier is the `sync()` at the end, so a block may be on the medium without
its data; each image it leads to is the file it asks for, what was on the
medium, or a mixture, never another file's data. A kill between `open()`, which
truncates an image file, and the first write is not a step of its own: it leaves
an empty file.

`Mmc`. No card, SD of three generations, standard and high capacity, eMMC with
and without DDR, with partitions, with fewer wires, with modes they announce and
refuse, and one that stays busy too long; any two commands, responses or clock
changes lost. 3 turns stand for the 1000 of the op_cond loops. Fairness: the
driver runs on.

`SunxiMmc`. Three reads in a row, so that what one leaves behind meets the next;
reads of zero to two commands (5 blocks per command, descriptors of 2, a FIFO
of 2), aligned to cache lines of 3 and not, into DRAM and SRAM, and past the end
of the card; two faults. Fairness: the driver's loops and the hardware run on;
the card that was lost owes nothing (`CardGivesUp` is its own time-out).

`BootTree`. Trees with and without each node, aliases before and after the node
they name, a mac-address of every length from none to longer than the new one in
front of the aliases, NOP tags and reservations; images that fit, touch, overlap
or are empty or missing; room for everything, or for less and less of it.
`ImagesIntact` is about images that fit between their places (`Enough`); those
that overlap or are empty are in the run for `BootTreeTypeOK`. `TreeHandedOver`
asks for the edits of privacy and interface in trees whose header covers them
(`Sized`), which `fdt_increase_size()` then gives room; the second address of the
interface is set exactly when its path has not gone stale.

`Dram`. Every geometry the detection looks for in one rank, pairs of five of
them, full and half width, chips that cannot be trained, and five clocks (one
not a multiple of 24 MHz, the highest the PLL can make). Addresses are exact;
`NoAliases` compares those that differ in one line, which is enough as the
mapping only routes lines. `LayoutSound` takes the five addresses boot_prepare()
and load_splash() load to (`LoadPlaces`) with the most bootfs_load_image()
accepts (`LoadLimit`) from 1 GiB on, and with 2 MiB at 512 MiB, the rest there
being a limit of the code (section 3).

`Display`. Both values of DSI_FULL_INIT, all three programs, one
failing access and one reset anywhere, a panel of 4 by 3 pixels. p-boot's planes
are clipped by the panel's edges and never scaled; dtest's are scaled up and down
as well. Register values, packets with their checksums, and delays are the real
ones. A commit is its register writes one after the other, and a frame may come
between any two while the double buffer bit is set. `boot_gui()` commits once
before its loop and without a frame (main.c:1217), the backlight goes on after
its second commit. `NeverTorn` is about the frames within a commit, for p-boot's
programs, whose planes do not move (dtest's do, and may tear); `ShownAsAsked`
about a commit that is over and taken, for all. `HardwareReady` allows exceptions
only after a failed access, and names them: the CPU's two clocks and the packets
to the panel. Fairness:
the program runs on, and the TCON sends frames; both are needed, as commits wait
for frames without a limit.

`Console`. Builds with serial port and log, serial port and
video, log and video, and with none; up to four directives of all kinds before
and after the move of the log (`main_sram_only()` prints nothing during it); a
console of 3 by 2 cells, which scrolls; menus of five rounds with three fonts
(mixed, long runs, no runs). `MenuReadable` compares pixels with the glyphs of
the font before packing, the one property that needs glyphs drawn pixel by pixel.

## 5. Proofs

`PBootProofs` proves, for every value of the constants that satisfies
`ConstAssumption` (2 to 32 configurations, any media, any delays, any faults):

* `TypeCorrect`: `Spec => []TypeOK`.
* `WatchdogAlwaysCovers`: `Spec => []WatchdogCovers`. Not inductive by itself:
  that an OS, FEL or another bootloader finds the watchdog off needs that it is
  off from reset until `wdog_ping` (`OffUntilPing`), since start32 leaves for
  them directly. `TypeOK` is needed because a survived delay leaves a positive
  counter (`SurviveArmed`).
* `OptionTriedOnce`: `Spec => []OneShotConsumed`, with `UpIsPressed` (the
  volume-up path, which skips the option, is entered with the key).
* `HangsExplained`: `Spec => []HangsOnlyWhenLost`, from the watchdog invariant:
  a NULL bootfs in an automatic boot is met with the watchdog armed.

`BootfsProofs` proves, for every disk:

* `OpenInvariant`: `OpenSpec => []OpenInv`. The promise speaks of the first boot
  partition with a bootfs, the loop of places in a list; `ListSound` (the list
  is the Linux slots seen so far, in their order) and `PassedOver` (what the
  first round has passed holds no bootfs with the boot flag) connect the two.
* `BootFlagFirst`: `OpenSpec => []FirstPassSound`. That `parts[i].is_boot` behind
  the list is arbitrary costs the second round its guarantees, not the first.
* `OpenImplements`: with `Behind = {FALSE}`, `OpenSpec` implies `BootfsSpec`
  without its `<>opened`: a return is the promised one, any other step is not
  seen. `PlainAhead`: as long as nothing is found, a bootfs without the flag is
  still to come. The assumption is needed (`BootfsStale`).

`BootMenuProofs` proves, for every boot area, RTC content, window height and
number of presses:

* `CursorAlwaysSound`: every `gui_menu_update` leaves the cursor on a line that
  can be chosen and inside the window, from lemmas about the scroll and about
  the ids `boot_gui` hands out (they ascend, so a line is found by its id).
* `DefaultAlwaysShown`: the marked line is the default of the RTC.
* `NoPressLost`: `PressesAccounted`. The counters are unbounded in the theorem;
  the invariant relates, flag by flag, what the PMIC set, what was read and what
  was acknowledged, and the step needs that `AckIrq` clears only what `ReadIrq`
  read.
* `BootKept`: the action property `BootNotOverridden`.

`ConfToolProofs` proves, for every boot.conf and every files/ directory:

* `RefusesExactly`: `Spec => []RefusesUntouched`. `Valid` reads a file as a
  whole, the tool line by line with one configuration open; `Parsed` relates
  them: which sections the lines read so far have opened and closed, that the
  closed ones are valid with numbers of their own and are those in `confs`
  (`Completed`), and that `conf` is what the last one says so far (`Reads`).
  `CompleteIff` is the heart: at the end of a section `complete_conf()` accepts
  it exactly if the section is valid and its number is new, which is noticed
  only there and not at the no= line. `Listing` counts the entries of files/.
* `InterruptionSafe`: `Spec => []KilledSound`, and `StoredAsAsked`:
  `Spec => []RoundTrip`, both from `StoreInv` and provided that no file is larger
  than `MaxImage`: the reader refuses those, the tool stores them without a word.
  `StoreInv` follows a name from the line to the medium. While parsing, the images
  of `conf` and `confs` are those of their lines and every file named is in
  `data_list` (`ImageLines`, `Stocked`); at the end of boot.conf that is `KeptAll`,
  for every section. `Holds(f)` says that a file's extent is sector-aligned, below
  `off_i`, and holds its payload; it survives because data goes above `off_i` and
  blocks below `DataStart`. `Written(m)` says that the first m blocks are this
  run's and the others untouched, and while m > 0 all the data is in. The reader's
  side: `LoadHeld` (whole sectors from an aligned offset stay on the device, so
  the limit checks of `bootfs_load_image()` pass), `FirstEntry` (the first entry
  of a name exists, by well-foundedness), and for the list of files a count:
  `FreeSlots` (each no= takes one slot, by a bijection) and `FreeSlot` (there is a
  slot with exactly q free ones before it), so file k is in the block of the free
  slot number (k - 1) div PerBlock.

`MmcProofs` proves, for every set of cards that satisfies `MmcAssumption`, any
number of lost commands, responses and clock changes and any limit of the
polling loops:

* `CardsAlwaysSound`: `Spec => []InitSound`. `MmcInv` says, point by point of
  `mmc_init`, what the commands that have succeeded tell of the card:
  `Identity` (its kind, from which commands it answers), `Attached` (selected
  from CMD7 on), `Sized` (which register the size comes from), `Switching` (who
  waits for the CMD6 under way, and whether the timing is that of the mode being
  tried) and `Bus` (what both sides were told; a command whose response is lost
  may have changed the card, and the second look at the extended CSD or, for an
  SD card, the order width, timing, clock makes up for it). `ClockBound` shows
  that `mmc_set_mod_clk` never gives more than it was asked for, for any rate.
* `HealthyCardAlwaysComesUp`: `Spec => []HealthyCardComesUp`, if every card is
  `Conforming`: a high capacity SD card is of version 2 and answers CMD8; the
  switches of ERASE_GROUP_DEF and to the default speed, which every standard
  makes mandatory and whose refusal the driver takes for a broken card, are not
  refused; and the clock in an MMC's CSD is above 12 MHz. All other refusals,
  wires, capacities and versions are free, and all cards of the run conform.
  `MmcInv` does not follow a card that is well, so the proof adds `HealthyInv`,
  which says, until the first fault (`faults = 0 => Well`), that the card is where
  each command looks for it and the turns left are enough for its busy time
  (`Answers`), that one line and single edges are in use until a mode is tried
  (`Untried`), that all modes gone through were unacceptable to the card or its
  wires (`Refused`, by an index into `Offered`), and how much of the mode at hand
  has been granted (`Tried`, `SdTried`). `ClockFloor` is the other half of
  `ClockBound`: above 12 MHz the divider gives at least four fifths of the rate.

`SunxiMmcProofs` proves, for every card, FIFO, descriptor length and cache
geometry that satisfies `SunxiAssumption`, with any faults:

* `ReadsComplete`: `Spec => []ReadComplete`. `ReadInv` follows the sectors of a
  transfer from the card over the FIFO to memory (`Stream`, `Held`), and says
  that no cache line over the buffer is dirty while DMA runs (`Clean`).
* `MemoryLeftAlone`: the action property `NoLateDma`.

`BootTreeProofs` proves, for every placement of the fixed addresses in their
order and any images:

* `ImagesAlwaysIntact`: `Spec => []ImagesIntact`. `MapInv` says, for images that
  fit (`Enough`), where each is whole after every step; the lemmas on `Store`
  and `Copy` say which cells a step leaves alone (the kernel's `memmove` may
  overlap itself, an empty alternative tree leaves the first one in place).

`DramProofs` proves, for every set of chips whose geometry the code looks for
(11 to 16 row lines, 2 or 3 bank lines, pages of 512 bytes to 8 KiB, one rank or
two, within the 3 GiB window), full or half width, sound or not:

* `SizeAlwaysRight`: `Spec => []SizeRight`. `DramInv` says what each step has
  found out: `TrainingRight` that the second training asks for exactly the ranks
  and lanes that are there, `GeometryRight` that row, bank and page of a rank are
  the chip's once probed, the first rank before the second starts. `RowProbe`,
  `BankProbe` and `PageProbe` show that under the generous CR of its probe a line
  is an alias exactly when the chip lacks it; `FirstMatchIs` that the search then
  ends at the chip's number of lines; `ProbeCell` that both addresses of a probe
  are in the rank it is about.
* `EveryAddressItsOwnCell`: once a size is reported, any two addresses below it
  select different cells (`SelDetermines`: column, bank and row determine an
  address of a rank). `NeverAliases` is the part of it that the run checks.
* `LayoutAlwaysSound`: `Spec => []LayoutSound`: from 1 GiB on no image that
  `bootfs_load_image` accepts reaches heap or tables, below it none of 2 MiB.
* `CyclesAlwaysCover`: at every clock from 100 to 1000 MHz, also where the PLL
  makes less than was asked for or its multiplier wraps.
* `TimingsAlwaysCover`: `Spec => []TimingsCover` for `Clks = {552}`, the clock of
  configure.php. The refresh part is not true of every clock (at 492 MHz refresh
  comes 0.06 % too late, at 371 MHz, of which the PLL makes 360, 0.3 %), so no
  theorem says it of them.

`PBootProofs` also proves

* `PriorityKept`: `Spec => []BootPriority`, in both builds. `TriesInOrder` records, for every
  point of main, which of the candidates in the order of preference have been
  looked for and were not there; `SelectsAsked` that what is asked for is the
  candidate whose turn it is.

Each has one step per action of `Next`. What the proofs asked of the model:
`Candidates` of `PBoot` and `Switched` of `Mmc` had a CASE with overlapping
guards; the modes of `Mmc` are listed without `SelectSeq`; `LoadAll` and the
menu's lists are written without folds, which the provers do not see through;
`RefusesUntouched` is about `pending`, because a target that already holds the
superblock is written without being changed; assumptions that say what the
constants are. `HealthyCardComesUp` names the modes on offer (`Offered`), what a
card is willing to take (`Willing`) and the first that fits (`Best`); proving it
also found its limit, the 12 MHz above: at or below that `mmc_set_mod_clk` takes the
24 MHz oscillator, of which 10 MHz becomes 6 MHz. `Dram` names the powers of two (`Bit`), so that the provers see
their values and not the exponentiation, and `FirstMatch` takes a set. A power
loss of `ConfTool` is one function of the writes kept (`Flushed`), not a fold over
an order of them, which makes no difference as no two of them meet.

Only model-checked, and why:

* all liveness (`MenuEnds`, `ReadReturns`, `Settles`, `PanicPowersOff`,
  `RebootReaches`, `InitReturns`, `ScreenComesUp`, `<>opened`): the prover does
  not handle fairness;
* `PowerLossSound`: which subset of the writes arrives is arbitrary, and the
  invariant about the order of the writes says nothing of it;
* `BootTreeTypeOK` and `TreeHandedOver`: what libfdt's walks compute for every
  blob needs induction over it;
* everything in `Display` and `Console`, which reach recursive operators or
  Bitwise.

## 6. Not modelled

* Code that is not in the build: `fdt_overlay.c`, the writing half of the MMC
  stack and its faster modes, `sd_read_ssr`, `fdt_fixup_bt`.
* Helpers that only print (register and memory dumps of debug.c and pmic.c), the
  battery and charger set-up, the RTC fix-up, and the packaging tools of the
  build: no state that another part reads.
* PHY bit delays and master priorities of the DRAM controller: constants whose
  effect is analogue. Waits of PLLs and of the DMA engine's reset
  (sunxi_mmc.c:480) have no time-out in the code and are taken to end.
* Speculative fetches of cache lines during a DMA transfer (the code flushes
  before and does not invalidate after): what the core does is not in the code.
* Pixel formats, alpha, colours' values, and the figures dtest draws.
* Assembly (start.S, start32.S): stack, exception level, cache and jump.

## 7. Plan

1. `BootMenu` shown to implement the menu actions of `PBoot`, and `BootTree`
   those of `BootSelection`.
2. The battery and charger set-up of pmic.c.
