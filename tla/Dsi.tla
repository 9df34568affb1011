-------------------------------- MODULE Dsi ---------------------------------
(***************************************************************************)
(* What the MIPI DSI host is programmed with, by the two paths display.c   *)
(* has: dsi_init() computes register values and packets from the panel's   *)
(* timings and command list; dsi_init_fast() plays back two tables that    *)
(* were dumped from it.  A register value is a pair of 16-bit halves, a    *)
(* packet a sequence of bytes in the order they are sent.                  *)
(*                                                                         *)
(* A definition X_y in front of X is a faulty variant of X, there only to  *)
(* see that the properties notice it; nothing uses it.                     *)
(***************************************************************************)
EXTENDS Integers, Sequences, FiniteSets, Bitwise

Word(n) == <<n \div 65536, n % 65536>>
Bit(n, j) == (n \div 2 ^ j) % 2
Low(n) == n % 256
High(n) == n \div 256

(* PANEL_*: timings of the panel, in pixels and lines.                     *)
H == [display |-> 720, start |-> 750, end |-> 778, total |-> 808]
V == [display |-> 1440, start |-> 1458, end |-> 1468, total |-> 1485]
PANEL_LANES == 4
Bpp == 3
Lanes == 2 ^ PANEL_LANES - 1
-----------------------------------------------------------------------------
(* sun6i_dsi_ecc_compute(): bit i is the parity of the bits in field i of  *)
(* the 24 bits before it.                                                  *)
ecc_array == <<{0, 1, 2, 4, 5, 7, 10, 11, 13, 16, 20, 21, 22, 23},
               {0, 1, 3, 4, 6, 8, 10, 12, 14, 17, 20, 21, 22, 23},
               {0, 2, 3, 5, 6, 9, 11, 12, 15, 18, 20, 21, 22},
               {1, 2, 3, 7, 8, 9, 13, 14, 15, 19, 20, 21, 23},
               {4, 5, 6, 7, 8, 9, 16, 17, 18, 19, 20, 22, 23},
               {10, 11, 12, 13, 14, 15, 16, 17, 18, 19, 21, 22, 23}>>
Parity(n, i) == Cardinality({j \in ecc_array[i] : Bit(n, j) = 1}) % 2
sun6i_dsi_ecc_compute(n) ==
  LET p(i) == 2 ^ (i - 1) * Parity(n, i) IN p(1) + p(2) + p(3) + p(4) + p(5) + p(6)

(* crc_ccitt_table: each byte shifted out through polynomial 0x8408.       *)
Shift(c) == IF c % 2 = 1 THEN (c \div 2) ^^ \h8408 ELSE c \div 2
crc_ccitt_table ==
  [b \in 0 .. 255 |-> Shift(Shift(Shift(Shift(Shift(Shift(Shift(Shift(b))))))))]
crc_ccitt_byte(crc, c) == High(crc) ^^ crc_ccitt_table[Low(crc) ^^ c]
RECURSIVE crc_ccitt(_, _)
crc_ccitt(crc, buf) ==
  IF buf = <<>> THEN crc ELSE crc_ccitt(crc_ccitt_byte(crc, Head(buf)), Tail(buf))
sun6i_dsi_crc_compute(buf) == crc_ccitt(65535, buf)
(* sun6i_dsi_crc_repeat(): len equal bytes, taken half by half.            *)
CrcRepeat[pd \in 0 .. 255, crc \in 0 .. 65535, len \in Nat] ==
  CASE len = 0 -> crc
    [] len = 1 -> crc_ccitt_byte(crc, pd)
    [] OTHER   -> CrcRepeat[pd, CrcRepeat[pd, crc, len \div 2], len - (len \div 2)]
sun6i_dsi_crc_repeat(pd, len) == CrcRepeat[pd, 65535, len]

(* Packet headers: type, two bytes of data or length, ECC.                 *)
Header(dt, d0, d1) == LET n == dt + 256 * d0 + 65536 * d1
                      IN <<dt, d0, d1, sun6i_dsi_ecc_compute(n)>>
sun6i_dsi_build_sync_pkt(dt, d0, d1) ==
  LET h == Header(dt, d0, d1) IN <<h[3] + 256 * h[4], h[1] + 256 * h[2]>>
sun6i_dsi_build_blk0_pkt(wc) == sun6i_dsi_build_sync_pkt(\h19, Low(wc), High(wc))
sun6i_dsi_build_blk1_pkt(pd, len) == <<sun6i_dsi_crc_repeat(pd, len), pd>>
-----------------------------------------------------------------------------
(* The register writes of dsi_init(), in order: <<register, value>>.       *)
Func(id, mode, clock, lanes, packet) ==
  <<\h20 + 4 * id, Word(mode * 2 ^ 28 + packet * 2 ^ 20 + 16 * clock + lanes)>>
sun6i_dsi_inst_init ==
  << Func(0, 0, 1, Lanes, 0), Func(1, 1, 0, 1, 0), Func(2, 2, 1, 0, 0),
     Func(3, 2, 0, Lanes, 0), Func(4, 3, 0, 1, 1), Func(5, 4, 1, 0, 0),
     Func(6, 0, 0, Lanes, 0), Func(7, 5, 1, Lanes, 0),
     <<\h4c, Word(5 * 2 ^ 20 + 6 * 65536 + 1)>> >>
sun6i_dsi_get_video_start_delay ==
  LET d == V.total - (V.start - V.display) + 1
      e == IF d > V.total THEN d % V.total ELSE d
  IN IF e < 1 THEN 1 ELSE e
(* Without burst mode: only the request for data from the TCON.            *)
sun6i_dsi_setup_burst ==
  LET porch == H.start - H.display IN
  << <<\h7c, Word(IF porch > 20 THEN 2 ^ 28 + ((porch - 20) * 8 * Bpp) \div 32 ELSE 0)>> >>
sun6i_dsi_setup_inst_loop ==
  LET delay == 49 IN
  << <<\h40, Word(2 + 3 * 2 ^ 28)>>, <<\h44, <<delay, 49>>>>, <<\h54, <<delay, 49>>>> >>
sun6i_dsi_setup_format ==
  LET wc == H.display * Bpp IN
  << <<\h90, sun6i_dsi_build_sync_pkt(\h3e, Low(wc), High(wc))>>,
     <<\h98, <<0, 65535>>>>, <<\h9c, <<65535, 65535>>>>, <<\h80, Word(65536 + 8)>> >>
(* Blanking packets fill the line up to their fixed overhead.              *)
Fill(bytes, overhead) == IF bytes - overhead > overhead THEN bytes - overhead ELSE overhead
sun6i_dsi_setup_timings ==
  LET hsa  == Fill((H.end - H.start) * Bpp, 10)
      hbp  == Fill((H.total - H.end) * Bpp, 6)
      hfp  == Fill((H.start - H.display) * Bpp, 16)
      hblk == Fill((H.total - (H.end - H.start)) * Bpp, 10)
      Blank(reg, len) == << <<reg, sun6i_dsi_build_blk0_pkt(len)>>,
                            <<reg + 4, sun6i_dsi_build_blk1_pkt(0, len)>> >>
  IN << <<\h0c, Word(0)>>,
        <<\hb0, sun6i_dsi_build_sync_pkt(\h21, 0, 0)>>, <<\hb4, sun6i_dsi_build_sync_pkt(\h31, 0, 0)>>,
        <<\hb8, sun6i_dsi_build_sync_pkt(\h01, 0, 0)>>, <<\hbc, sun6i_dsi_build_sync_pkt(\h11, 0, 0)>>,
        <<\h18, <<V.total - V.end, V.end - V.start>>>>, <<\h1c, <<V.total, V.display>>>> >>
     \o Blank(\hc0, hsa) \o Blank(\hc8, hbp) \o Blank(\hd0, hfp) \o Blank(\he0, hblk) \o Blank(\he8, 0)
FullWrites ==
  << <<\h00, Word(1)>>, <<\h10, Word(3 * 65536)>>, <<\h60, Word(10)>>, <<\h78, Word(0)>> >>
  \o sun6i_dsi_inst_init
  \o << <<\h2f8, Word(255)>>, <<\h14, Word(16 * sun6i_dsi_get_video_start_delay + 7)>> >>
  \o sun6i_dsi_setup_burst \o sun6i_dsi_setup_inst_loop
  \o sun6i_dsi_setup_format \o sun6i_dsi_setup_timings

(* mipi_dsi_dcs_write(): a short packet for one or two bytes, else a long  *)
(* one with its length, CRC and padding to words.  ctl is the number of    *)
(* bytes to send, less one.                                                *)
Pad(s) == s \o SubSeq(<<0, 0, 0>>, 1, (4 - (Len(s) % 4)) % 4)
mipi_dsi_dcs_write_nocrc(d) == [ctl |-> Len(d) + 3, bytes |-> Header(\h39, Len(d), 0) \o Pad(d)]
mipi_dsi_dcs_write(d) ==
  LET crc == sun6i_dsi_crc_compute(d) IN
  CASE Len(d) = 1 -> [ctl |-> 3, bytes |-> Header(\h05, d[1], 0)]
    [] Len(d) = 2 -> [ctl |-> 3, bytes |-> Header(\h15, d[1], d[2])]
    [] OTHER -> [ctl |-> Len(d) + 2 + 4 - 1,
                 bytes |-> Header(\h39, Len(d), 0) \o Pad(d \o <<Low(crc), High(crc)>>)]
-----------------------------------------------------------------------------
(* panel_dcs_seq_initlist without its pause, which SleepAfter places.      *)
PanelSeq == <<
  <<\hb9, \hf1, \h12, \h83>>,
  <<\hba, \h33, \h81, \h05, \hf9, \h0e, \h0e, \h20, \h00, \h00, \h00, \h00, \h00, \h00, \h00, \h44,
    \h25, \h00, \h91, \h0a, \h00, \h00, \h02, \h4f, \h11, \h00, \h00, \h37>>,
  <<\hb8, \h25, \h22, \h20, \h03>>,
  <<\hb3, \h10, \h10, \h05, \h05, \h03, \hff, \h00, \h00, \h00, \h00>>,
  <<\hc0, \h73, \h73, \h50, \h50, \h00, \hc0, \h08, \h70, \h00>>,
  <<\hbc, \h4e>>,
  <<\hcc, \h0b>>,
  <<\hb4, \h80>>,
  <<\hb2, \hf0, \h12, \hf0>>,
  <<\he3, \h00, \h00, \h0b, \h0b, \h10, \h10, \h00, \h00, \h00, \h00, \hff, \h00, \hc0, \h10>>,
  <<\hc6, \h01, \h00, \hff, \hff, \h00>>,
  <<\hc1, \h74, \h00, \h32, \h32, \h77, \hf1, \hff, \hff, \hcc, \hcc, \h77, \h77>>,
  <<\hb5, \h07, \h07>>,
  <<\hb6, \h2c, \h2c>>,
  <<\hbf, \h02, \h11, \h00>>,
  <<\he9, \h82, \h10, \h06, \h05, \ha2, \h0a, \ha5, \h12, \h31, \h23, \h37, \h83, \h04, \hbc, \h27,
    \h38, \h0c, \h00, \h03, \h00, \h00, \h00, \h0c, \h00, \h03, \h00, \h00, \h00, \h75, \h75, \h31,
    \h88, \h88, \h88, \h88, \h88, \h88, \h13, \h88, \h64, \h64, \h20, \h88, \h88, \h88, \h88, \h88,
    \h88, \h02, \h88, \h00, \h00, \h00, \h00, \h00, \h00, \h00, \h00, \h00, \h00, \h00, \h00, \h00>>,
  <<\hea, \h02, \h21, \h00, \h00, \h00, \h00, \h00, \h00, \h00, \h00, \h00, \h00, \h02, \h46, \h02,
    \h88, \h88, \h88, \h88, \h88, \h88, \h64, \h88, \h13, \h57, \h13, \h88, \h88, \h88, \h88, \h88,
    \h88, \h75, \h88, \h23, \h14, \h00, \h00, \h02, \h00, \h00, \h00, \h00, \h00, \h00, \h00, \h00,
    \h00, \h00, \h00, \h00, \h00, \h00, \h00, \h03, \h0a, \ha5, \h00, \h00, \h00, \h00>>,
  <<\he0, \h00, \h09, \h0d, \h23, \h27, \h3c, \h41, \h35, \h07, \h0d, \h0e, \h12, \h13, \h10, \h12,
    \h12, \h18, \h00, \h09, \h0d, \h23, \h27, \h3c, \h41, \h35, \h07, \h0d, \h0e, \h12, \h13, \h10,
    \h12, \h12, \h18>>,
  <<\h11>>,
  <<\h29>> >>
SleepAfter == 19
NPackets == Len(PanelSeq)
FullPackets == [i \in 1 .. NPackets |-> mipi_dsi_dcs_write(PanelSeq[i])]
(* dsi_init_seq and dsi_panel_init_seq, the latter by MAGIC_COMMIT.        *)
dsi_init_seq == <<
  <<\h00, \h0000, \h0001>>, <<\h10, \h0003, \h0000>>, <<\h60, \h0000, \h000a>>, <<\h78, \h0000, \h0000>>,
  <<\h20, \h0000, \h001f>>, <<\h24, \h1000, \h0001>>, <<\h28, \h2000, \h0010>>, <<\h2c, \h2000, \h000f>>,
  <<\h30, \h3010, \h0001>>, <<\h34, \h4000, \h0010>>, <<\h38, \h0000, \h000f>>, <<\h3c, \h5000, \h001f>>,
  <<\h4c, \h0056, \h0001>>, <<\h2f8, \h0000, \h00ff>>, <<\h14, \h0000, \h5bc7>>, <<\h7c, \h1000, \h0007>>,
  <<\h40, \h3000, \h0002>>, <<\h44, \h0031, \h0031>>, <<\h54, \h0031, \h0031>>, <<\h90, \h1308, \h703e>>,
  <<\h98, \h0000, \hffff>>, <<\h9c, \hffff, \hffff>>, <<\h80, \h0001, \h0008>>, <<\h0c, \h0000, \h0000>>,
  <<\hb0, \h1200, \h0021>>, <<\hb4, \h0100, \h0031>>, <<\hb8, \h0700, \h0001>>, <<\hbc, \h1400, \h0011>>,
  <<\h18, \h0011, \h000a>>, <<\h1c, \h05cd, \h05a0>>, <<\hc0, \h0900, \h4a19>>, <<\hc4, \h50b4, \h0000>>,
  <<\hc8, \h3500, \h5419>>, <<\hcc, \h757a, \h0000>>, <<\hd0, \h0900, \h4a19>>, <<\hd4, \h50b4, \h0000>>,
  <<\he0, \h0c09, \h1a19>>, <<\he4, \h72bd, \h0000>>, <<\he8, \h1a00, \h0019>>, <<\hec, \hffff, \h0000>> >>
dsi_panel_init_seq == <<
  [ctl |-> 9, words |-> <<\h2c00, \h0439, \h8312, \hf1b9, \h0000, \h5d84>>],
  [ctl |-> 33, words |-> <<\h2f00, \h1c39, \h0581, \h33ba, \h200e, \h0ef9, \h0000, \h0000, \h4400, \h0000,
    \h0a91, \h0025, \h4f02, \h0000, \h3700, \h0011, \h0000, \he22c>>],
  [ctl |-> 10, words |-> <<\h3600, \h0539, \h2022, \h25b8, \h0072, \h0303>>],
  [ctl |-> 16, words |-> <<\h2c00, \h0b39, \h0510, \h10b3, \h00ff, \h0305, \h6f00, \h0000, \h0000, \h00bc>>],
  [ctl |-> 15, words |-> <<\h3600, \h0a39, \h5073, \h73c0, \h08c0, \h0050, \h6a1b, \h0070>>],
  [ctl |-> 3, words |-> <<\h354e, \hbc15>>],
  [ctl |-> 3, words |-> <<\h220b, \hcc15>>],
  [ctl |-> 3, words |-> <<\h2280, \hb415>>],
  [ctl |-> 9, words |-> <<\h2c00, \h0439, \hf012, \hf0b2, \h0000, \h8651>>],
  [ctl |-> 20, words |-> <<\h0f00, \h0f39, \h0b00, \h00e3, \h0010, \h100b, \hff00, \h0000, \h3610, \hc000,
    \h0000, \h000f>>],
  [ctl |-> 11, words |-> <<\h3000, \h0639, \hff00, \h01c6, \h258e, \h00ff>>],
  [ctl |-> 18, words |-> <<\h1300, \h0d39, \h3200, \h74c1, \hfff1, \h7732, \h77cc, \hccff, \h00e4, \h6977>>],
  [ctl |-> 8, words |-> <<\h0900, \h0339, \h7b07, \h07b5, \h0000, \h00b3>>],
  [ctl |-> 8, words |-> <<\h0900, \h0339, \h552c, \h2cb6, \h0000, \h0004>>],
  [ctl |-> 9, words |-> <<\h2c00, \h0439, \h0011, \h02bf, \h0000, \he9b5>>],
  [ctl |-> 69, words |-> <<\h2500, \h4039, \h0610, \h82e9, \ha50a, \ha205, \h3723, \h3112, \h27bc, \h0483,
    \h0300, \h0c38, \h0c00, \h0000, \h0000, \h0300, \h3175, \h7500, \h8888, \h8888,
    \h8813, \h8888, \h8820, \h6464, \h8888, \h8888, \h0088, \h0288, \h0000, \h0000,
    \h0000, \h0000, \h0000, \h0000, \h0000, \h0365>>],
  [ctl |-> 67, words |-> <<\h1a00, \h3e39, \h0021, \h02ea, \h0000, \h0000, \h0000, \h0000, \h0246, \h0200,
    \h8888, \h8888, \h8864, \h8888, \h8813, \h5713, \h8888, \h8888, \h2388, \h7588,
    \h0200, \h0014, \h0000, \h0000, \h0000, \h0000, \h0000, \h0000, \h0300, \h0000,
    \h0000, \ha50a, \h1b24, \h0000>>],
  [ctl |-> 40, words |-> <<\h2000, \h2339, \h0d09, \h00e0, \h413c, \h2723, \h0e0d, \h0735, \h1210, \h1312,
    \h0900, \h1812, \h3c27, \h230d, \h0d07, \h3541, \h1013, \h120e, \h9318, \h1212,
    \h0000, \h00bf>>],
  [ctl |-> 3, words |-> <<\h3600, \h1105>>],
  [ctl |-> 3, words |-> <<\h1c00, \h2905>>] >>
FastWrites == [i \in 1 .. Len(dsi_init_seq) |->
                 <<dsi_init_seq[i][1], <<dsi_init_seq[i][2], dsi_init_seq[i][3]>>>>]
(* The bytes a table entry's words put into the transmit buffer.           *)
Bytes(words) == [k \in 1 .. 2 * Len(words) |->
                   LET w == (k - 1) \div 4   j == (k - 1) % 4
                       half == words[2 * w + (IF j < 2 THEN 2 ELSE 1)]
                   IN IF j % 2 = 0 THEN Low(half) ELSE High(half)]
FastPackets == [i \in 1 .. Len(dsi_panel_init_seq) |->
                  [ctl |-> dsi_panel_init_seq[i].ctl, bytes |-> Bytes(dsi_panel_init_seq[i].words)]]
(* The registers a sequence of writes leaves behind.                       *)
Regs(writes) ==
  [r \in {writes[i][1] : i \in DOMAIN writes} |->
     LET last == CHOOSE i \in DOMAIN writes :
                   /\ writes[i][1] = r
                   /\ \A k \in DOMAIN writes : writes[k][1] = r => k <= i
     IN writes[last][2]]

(* The panel (external): takes a packet whose length, ECC and CRC are      *)
(* right, else ignores it.                                                 *)
Sent(p) == SubSeq(p.bytes, 1, p.ctl + 1)
Accepts(p, d) ==
  LET b == Sent(p)
      n == b[1] + 256 * b[2] + 65536 * b[3]
      long == b[1] = \h39
      body == IF long THEN SubSeq(b, 5, Len(b) - 2)
              ELSE SubSeq(b, 2, IF b[1] = \h15 THEN 3 ELSE 2)
  IN /\ p.ctl + 1 <= Len(p.bytes)
     /\ b[4] = sun6i_dsi_ecc_compute(n) /\ body = d
     /\ long => /\ b[2] + 256 * b[3] = Len(d)
                /\ b[Len(b) - 1] + 256 * b[Len(b)] = sun6i_dsi_crc_compute(d)
=============================================================================
