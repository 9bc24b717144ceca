----------------------------- MODULE MCEncodings ------------------------------
(* Values for EncodingsProps, with those at the limits of each conversion. *)
EXTENDS EncodingsProps

\* The data of an address in tests/multi-output.js, with its checksum.
ASSUME TestAddress ==
  Polymod(Expanded(hrbs.mainnet) \o
    <<0, 4, 0, 14, 10, 9, 16, 13, 16, 14, 13, 7, 16, 26, 22, 2, 21, 4, 4, 17, 16, 7, 15, 25,
      20, 16, 17, 31, 3, 27, 29, 30, 16, 24, 29, 0, 24, 7, 1, 19, 4, 28>>) = {0}

MCMagic == <<78, 58>>

MCLabels == {<<75, 101, 121>>}   \* "Key"

MCNumbers == {0, 1, 5, 9, 10, 50, 99, 100, 101, 110, 123, 205, 999, 1000, 1001, 1010, 1023}
MCCounts == {0, 3, 10, 100, 907, 1023}

\* A hash of two bytes, and a period of one.
MCLocks == {<<0, 0, 0>>, <<255, 1, 0>>, <<255, 1, 1>>, <<7, 128, 255>>}
MCOutputs == {<<c, arg>> : c \in {7, 1023}, arg \in {<<255, 1, 0>>, <<255, 1, 1>>}}

\* Components hardened and not, an empty path, one too long, one cut short.
MCPaths == {<<>>, <<0>>, <<1, 16, 0>>, <<2, 17, 12, 0, 0>>, <<3, 1, 12, 31, 31, 15, 31>>,
            <<2, 17, 12, 0>>, <<2, 1, 1, 2, 2, 9>>,
            <<5, 31, 31, 31, 31, 31, 31, 31, 31, 31, 31>>,
            <<6, 1, 1, 1, 1, 1, 1, 1, 1, 1, 1, 1, 1>>}

\* Characters of one to four bytes, without glyphs at either end, control characters,
\* and bytes that are not UTF-8.
A == <<65>>
Two == <<195, 169>>
Three == <<226, 130, 172>>
Four == <<240, 159, 153, 130>>
Times(s, n) == FlattenSeq([i \in 1 .. n |-> s])

Messages == {<<>>, A, Two \o A, A \o Four, Three \o A \o Two, <<10>> \o A \o <<126, 127, 31, 32>>,
             Times(A, DISPLAY), Times(A, DISPLAY + 1), Times(A, DISPLAY - 1) \o Four,
             Times(Two, DISPLAY) \o A, Times(Four, 4), <<46, 46, 46>>,
             <<128, 65>>, <<195, 65, 233>> \o A \o A, Times(A, DISPLAY + 2) \o <<195>>,
             A \o <<195>>, Times(A, 5) \o <<240, 159>>, Times(A, 5) \o <<226, 130>>}
MCPackets == {MAGIC \o m : m \in Messages} \cup {<<>>, <<78>>, <<65, 66, 67>>}

MCHashes == {<<>>, <<0, 255, 171, 16>>, Times(<<9>>, DISPLAY \div 2), Times(<<9>>, DISPLAY)}

MCScalars == {<<1>>, <<128>>, <<1, 0>>, <<127, 255>>, <<255, 254>>}
==============================================================================
