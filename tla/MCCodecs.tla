------------------------------- MODULE MCCodecs -------------------------------
(* Sample values for Codecs.                                               *)
EXTENDS Codecs

MCIntegers == {<<1>>, <<1, 2>>}
MCStrings == {<<>>, <<3>>, <<2, 1, 3, 0, 5, 6, 7, 4>>}
MCLetters == {32, 97, 98}
MCInts == {0, 1, 7, 8, 9, 10, 99, 100, 255, 999, 1000, 9999, 10000, 99999, 100000, 9999999, 10000000,
           536870911, -1, -10, -536870912}
MCGroups == {<<3>>, <<1>>, <<3, 2>>, <<2, 0>>, <<3, 127>>}
MCExts == [type : {"opts", "ah", "other"}, len : 0..1]
===============================================================================
