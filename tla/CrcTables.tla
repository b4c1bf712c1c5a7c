------------------------------ MODULE CrcTables ------------------------------
(***************************************************************************)
(* The tables of lib/crc.c as they stand there, entry by entry.  TLC has no*)
(* numbers of 32 bits, so an entry of crc32tab is written in two halves.   *)
(* Module MCUtilities compares the words that module Crc has for them.     *)
(***************************************************************************)
EXTENDS Integers

crc8tab == <<
  \h00, \h07, \h0e, \h09, \h1c, \h1b, \h12, \h15, \h38, \h3f, \h36, \h31, \h24, \h23, \h2a, \h2d,
  \h70, \h77, \h7e, \h79, \h6c, \h6b, \h62, \h65, \h48, \h4f, \h46, \h41, \h54, \h53, \h5a, \h5d,
  \he0, \he7, \hee, \he9, \hfc, \hfb, \hf2, \hf5, \hd8, \hdf, \hd6, \hd1, \hc4, \hc3, \hca, \hcd,
  \h90, \h97, \h9e, \h99, \h8c, \h8b, \h82, \h85, \ha8, \haf, \ha6, \ha1, \hb4, \hb3, \hba, \hbd,
  \hc7, \hc0, \hc9, \hce, \hdb, \hdc, \hd5, \hd2, \hff, \hf8, \hf1, \hf6, \he3, \he4, \hed, \hea,
  \hb7, \hb0, \hb9, \hbe, \hab, \hac, \ha5, \ha2, \h8f, \h88, \h81, \h86, \h93, \h94, \h9d, \h9a,
  \h27, \h20, \h29, \h2e, \h3b, \h3c, \h35, \h32, \h1f, \h18, \h11, \h16, \h03, \h04, \h0d, \h0a,
  \h57, \h50, \h59, \h5e, \h4b, \h4c, \h45, \h42, \h6f, \h68, \h61, \h66, \h73, \h74, \h7d, \h7a,
  \h89, \h8e, \h87, \h80, \h95, \h92, \h9b, \h9c, \hb1, \hb6, \hbf, \hb8, \had, \haa, \ha3, \ha4,
  \hf9, \hfe, \hf7, \hf0, \he5, \he2, \heb, \hec, \hc1, \hc6, \hcf, \hc8, \hdd, \hda, \hd3, \hd4,
  \h69, \h6e, \h67, \h60, \h75, \h72, \h7b, \h7c, \h51, \h56, \h5f, \h58, \h4d, \h4a, \h43, \h44,
  \h19, \h1e, \h17, \h10, \h05, \h02, \h0b, \h0c, \h21, \h26, \h2f, \h28, \h3d, \h3a, \h33, \h34,
  \h4e, \h49, \h40, \h47, \h52, \h55, \h5c, \h5b, \h76, \h71, \h78, \h7f, \h6a, \h6d, \h64, \h63,
  \h3e, \h39, \h30, \h37, \h22, \h25, \h2c, \h2b, \h06, \h01, \h08, \h0f, \h1a, \h1d, \h14, \h13,
  \hae, \ha9, \ha0, \ha7, \hb2, \hb5, \hbc, \hbb, \h96, \h91, \h98, \h9f, \h8a, \h8d, \h84, \h83,
  \hde, \hd9, \hd0, \hd7, \hc2, \hc5, \hcc, \hcb, \he6, \he1, \he8, \hef, \hfa, \hfd, \hf4, \hf3>>

crc16tab == <<
  \h0000, \h1021, \h2042, \h3063, \h4084, \h50a5, \h60c6, \h70e7,
  \h8108, \h9129, \ha14a, \hb16b, \hc18c, \hd1ad, \he1ce, \hf1ef,
  \h1231, \h0210, \h3273, \h2252, \h52b5, \h4294, \h72f7, \h62d6,
  \h9339, \h8318, \hb37b, \ha35a, \hd3bd, \hc39c, \hf3ff, \he3de,
  \h2462, \h3443, \h0420, \h1401, \h64e6, \h74c7, \h44a4, \h5485,
  \ha56a, \hb54b, \h8528, \h9509, \he5ee, \hf5cf, \hc5ac, \hd58d,
  \h3653, \h2672, \h1611, \h0630, \h76d7, \h66f6, \h5695, \h46b4,
  \hb75b, \ha77a, \h9719, \h8738, \hf7df, \he7fe, \hd79d, \hc7bc,
  \h48c4, \h58e5, \h6886, \h78a7, \h0840, \h1861, \h2802, \h3823,
  \hc9cc, \hd9ed, \he98e, \hf9af, \h8948, \h9969, \ha90a, \hb92b,
  \h5af5, \h4ad4, \h7ab7, \h6a96, \h1a71, \h0a50, \h3a33, \h2a12,
  \hdbfd, \hcbdc, \hfbbf, \heb9e, \h9b79, \h8b58, \hbb3b, \hab1a,
  \h6ca6, \h7c87, \h4ce4, \h5cc5, \h2c22, \h3c03, \h0c60, \h1c41,
  \hedae, \hfd8f, \hcdec, \hddcd, \had2a, \hbd0b, \h8d68, \h9d49,
  \h7e97, \h6eb6, \h5ed5, \h4ef4, \h3e13, \h2e32, \h1e51, \h0e70,
  \hff9f, \hefbe, \hdfdd, \hcffc, \hbf1b, \haf3a, \h9f59, \h8f78,
  \h9188, \h81a9, \hb1ca, \ha1eb, \hd10c, \hc12d, \hf14e, \he16f,
  \h1080, \h00a1, \h30c2, \h20e3, \h5004, \h4025, \h7046, \h6067,
  \h83b9, \h9398, \ha3fb, \hb3da, \hc33d, \hd31c, \he37f, \hf35e,
  \h02b1, \h1290, \h22f3, \h32d2, \h4235, \h5214, \h6277, \h7256,
  \hb5ea, \ha5cb, \h95a8, \h8589, \hf56e, \he54f, \hd52c, \hc50d,
  \h34e2, \h24c3, \h14a0, \h0481, \h7466, \h6447, \h5424, \h4405,
  \ha7db, \hb7fa, \h8799, \h97b8, \he75f, \hf77e, \hc71d, \hd73c,
  \h26d3, \h36f2, \h0691, \h16b0, \h6657, \h7676, \h4615, \h5634,
  \hd94c, \hc96d, \hf90e, \he92f, \h99c8, \h89e9, \hb98a, \ha9ab,
  \h5844, \h4865, \h7806, \h6827, \h18c0, \h08e1, \h3882, \h28a3,
  \hcb7d, \hdb5c, \heb3f, \hfb1e, \h8bf9, \h9bd8, \habbb, \hbb9a,
  \h4a75, \h5a54, \h6a37, \h7a16, \h0af1, \h1ad0, \h2ab3, \h3a92,
  \hfd2e, \hed0f, \hdd6c, \hcd4d, \hbdaa, \had8b, \h9de8, \h8dc9,
  \h7c26, \h6c07, \h5c64, \h4c45, \h3ca2, \h2c83, \h1ce0, \h0cc1,
  \hef1f, \hff3e, \hcf5d, \hdf7c, \haf9b, \hbfba, \h8fd9, \h9ff8,
  \h6e17, \h7e36, \h4e55, \h5e74, \h2e93, \h3eb2, \h0ed1, \h1ef0>>

\* The higher half of each entry, then its lower half.
crc32tab == <<
  \h0000, \h0000, \h04c1, \h1db7, \h0982, \h3b6e, \h0d43, \h26d9,
  \h1304, \h76dc, \h17c5, \h6b6b, \h1a86, \h4db2, \h1e47, \h5005,
  \h2608, \hedb8, \h22c9, \hf00f, \h2f8a, \hd6d6, \h2b4b, \hcb61,
  \h350c, \h9b64, \h31cd, \h86d3, \h3c8e, \ha00a, \h384f, \hbdbd,
  \h4c11, \hdb70, \h48d0, \hc6c7, \h4593, \he01e, \h4152, \hfda9,
  \h5f15, \hadac, \h5bd4, \hb01b, \h5697, \h96c2, \h5256, \h8b75,
  \h6a19, \h36c8, \h6ed8, \h2b7f, \h639b, \h0da6, \h675a, \h1011,
  \h791d, \h4014, \h7ddc, \h5da3, \h709f, \h7b7a, \h745e, \h66cd,
  \h9823, \hb6e0, \h9ce2, \hab57, \h91a1, \h8d8e, \h9560, \h9039,
  \h8b27, \hc03c, \h8fe6, \hdd8b, \h82a5, \hfb52, \h8664, \he6e5,
  \hbe2b, \h5b58, \hbaea, \h46ef, \hb7a9, \h6036, \hb368, \h7d81,
  \had2f, \h2d84, \ha9ee, \h3033, \ha4ad, \h16ea, \ha06c, \h0b5d,
  \hd432, \h6d90, \hd0f3, \h7027, \hddb0, \h56fe, \hd971, \h4b49,
  \hc736, \h1b4c, \hc3f7, \h06fb, \hceb4, \h2022, \hca75, \h3d95,
  \hf23a, \h8028, \hf6fb, \h9d9f, \hfbb8, \hbb46, \hff79, \ha6f1,
  \he13e, \hf6f4, \he5ff, \heb43, \he8bc, \hcd9a, \hec7d, \hd02d,
  \h3486, \h7077, \h3047, \h6dc0, \h3d04, \h4b19, \h39c5, \h56ae,
  \h2782, \h06ab, \h2343, \h1b1c, \h2e00, \h3dc5, \h2ac1, \h2072,
  \h128e, \h9dcf, \h164f, \h8078, \h1b0c, \ha6a1, \h1fcd, \hbb16,
  \h018a, \heb13, \h054b, \hf6a4, \h0808, \hd07d, \h0cc9, \hcdca,
  \h7897, \hab07, \h7c56, \hb6b0, \h7115, \h9069, \h75d4, \h8dde,
  \h6b93, \hdddb, \h6f52, \hc06c, \h6211, \he6b5, \h66d0, \hfb02,
  \h5e9f, \h46bf, \h5a5e, \h5b08, \h571d, \h7dd1, \h53dc, \h6066,
  \h4d9b, \h3063, \h495a, \h2dd4, \h4419, \h0b0d, \h40d8, \h16ba,
  \haca5, \hc697, \ha864, \hdb20, \ha527, \hfdf9, \ha1e6, \he04e,
  \hbfa1, \hb04b, \hbb60, \hadfc, \hb623, \h8b25, \hb2e2, \h9692,
  \h8aad, \h2b2f, \h8e6c, \h3698, \h832f, \h1041, \h87ee, \h0df6,
  \h99a9, \h5df3, \h9d68, \h4044, \h902b, \h669d, \h94ea, \h7b2a,
  \he0b4, \h1de7, \he475, \h0050, \he936, \h2689, \hedf7, \h3b3e,
  \hf3b0, \h6b3b, \hf771, \h768c, \hfa32, \h5055, \hfef3, \h4de2,
  \hc6bc, \hf05f, \hc27d, \hede8, \hcf3e, \hcb31, \hcbff, \hd686,
  \hd5b8, \h8683, \hd179, \h9b34, \hdc3a, \hbded, \hd8fb, \ha05a,
  \h690c, \he0ee, \h6dcd, \hfd59, \h608e, \hdb80, \h644f, \hc637,
  \h7a08, \h9632, \h7ec9, \h8b85, \h738a, \had5c, \h774b, \hb0eb,
  \h4f04, \h0d56, \h4bc5, \h10e1, \h4686, \h3638, \h4247, \h2b8f,
  \h5c00, \h7b8a, \h58c1, \h663d, \h5582, \h40e4, \h5143, \h5d53,
  \h251d, \h3b9e, \h21dc, \h2629, \h2c9f, \h00f0, \h285e, \h1d47,
  \h3619, \h4d42, \h32d8, \h50f5, \h3f9b, \h762c, \h3b5a, \h6b9b,
  \h0315, \hd626, \h07d4, \hcb91, \h0a97, \hed48, \h0e56, \hf0ff,
  \h1011, \ha0fa, \h14d0, \hbd4d, \h1993, \h9b94, \h1d52, \h8623,
  \hf12f, \h560e, \hf5ee, \h4bb9, \hf8ad, \h6d60, \hfc6c, \h70d7,
  \he22b, \h20d2, \he6ea, \h3d65, \heba9, \h1bbc, \hef68, \h060b,
  \hd727, \hbbb6, \hd3e6, \ha601, \hdea5, \h80d8, \hda64, \h9d6f,
  \hc423, \hcd6a, \hc0e2, \hd0dd, \hcda1, \hf604, \hc960, \hebb3,
  \hbd3e, \h8d7e, \hb9ff, \h90c9, \hb4bc, \hb610, \hb07d, \haba7,
  \hae3a, \hfba2, \haafb, \he615, \ha7b8, \hc0cc, \ha379, \hdd7b,
  \h9b36, \h60c6, \h9ff7, \h7d71, \h92b4, \h5ba8, \h9675, \h461f,
  \h8832, \h161a, \h8cf3, \h0bad, \h81b0, \h2d74, \h8571, \h30c3,
  \h5d8a, \h9099, \h594b, \h8d2e, \h5408, \habf7, \h50c9, \hb640,
  \h4e8e, \he645, \h4a4f, \hfbf2, \h470c, \hdd2b, \h43cd, \hc09c,
  \h7b82, \h7d21, \h7f43, \h6096, \h7200, \h464f, \h76c1, \h5bf8,
  \h6886, \h0bfd, \h6c47, \h164a, \h6104, \h3093, \h65c5, \h2d24,
  \h119b, \h4be9, \h155a, \h565e, \h1819, \h7087, \h1cd8, \h6d30,
  \h029f, \h3d35, \h065e, \h2082, \h0b1d, \h065b, \h0fdc, \h1bec,
  \h3793, \ha651, \h3352, \hbbe6, \h3e11, \h9d3f, \h3ad0, \h8088,
  \h2497, \hd08d, \h2056, \hcd3a, \h2d15, \hebe3, \h29d4, \hf654,
  \hc5a9, \h2679, \hc168, \h3bce, \hcc2b, \h1d17, \hc8ea, \h00a0,
  \hd6ad, \h50a5, \hd26c, \h4d12, \hdf2f, \h6bcb, \hdbee, \h767c,
  \he3a1, \hcbc1, \he760, \hd676, \hea23, \hf0af, \heee2, \hed18,
  \hf0a5, \hbd1d, \hf464, \ha0aa, \hf927, \h8673, \hfde6, \h9bc4,
  \h89b8, \hfd09, \h8d79, \he0be, \h803a, \hc667, \h84fb, \hdbd0,
  \h9abc, \h8bd5, \h9e7d, \h9662, \h933e, \hb0bb, \h97ff, \had0c,
  \hafb0, \h10b1, \hab71, \h0d06, \ha632, \h2bdf, \ha2f3, \h3668,
  \hbcb4, \h666d, \hb875, \h7bda, \hb536, \h5d03, \hb1f7, \h40b4>>

\* The halves of entry i of the table of each width, as Crc!FromHalves takes
\* them.
HalvesInFile == [w \in {8, 16, 32} |-> [i \in 0..255 |->
  CASE w = 8 -> <<0, crc8tab[i + 1]>>
    [] w = 16 -> <<0, crc16tab[i + 1]>>
    [] w = 32 -> <<crc32tab[2 * i + 1], crc32tab[2 * i + 2]>>]]
=============================================================================
