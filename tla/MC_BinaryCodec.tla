--------------------------- MODULE MC_BinaryCodec ---------------------------
EXTENDS BinaryCodec

\* Topics up to one byte over TopicLimit = 2, payloads up to one byte over
\* PayloadLimit = 2, and 64-bit values whose byte order is visible.
MCTopics == {<<>>, <<97>>, <<97, 255>>, <<97, 98, 99>>}
MCPayloads == {<<>>, <<0>>, <<1, 2>>, <<1, 2, 3>>}
MCU64s == {<<0, 0, 0, 0, 0, 0, 0, 0>>, <<0, 0, 0, 0, 0, 0, 0, 1>>,
           <<0, 0, 0, 0, 0, 0, 1, 2>>, <<255, 0, 0, 0, 0, 0, 0, 7>>}
=============================================================================
