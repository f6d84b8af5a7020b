--------------------------- MODULE MCConversions ---------------------------
(* 16 bytes with the values at which a sign or a carry could be lost, and  *)
(* a job for every conversion, with rates that divide and rates that do    *)
(* not, one and two channels, samples of 8, 16 and 32 bits (8 and 16 where *)
(* the upsampling is linear).                                              *)
EXTENDS Conversions

MCInput == <<1, 127, 255, 128, 0, 128, 16, 9, 255, 130, 2, 77, 128, 3, 0, 0>>

Rates(op, size, channels, inRate, outRate) ==
  [op |-> op, size |-> size, channels |-> channels, inRate |-> inRate, outRate |-> outRate]
Resampled(op, channels, outChannels, inRate, outRate, outBit) ==
  [op |-> op, channels |-> channels, outChannels |-> outChannels,
   inRate |-> inRate, outRate |-> outRate, outBit |-> outBit]
Exchange(width, write, read) ==
  [op |-> "exchange", width |-> width, write |-> write, read |-> read]

MCJobs ==
  { Rates("downSample", 2, 1, 2, 1), Rates("downSample", 1, 2, 3, 1), Rates("downSample", 2, 1, 3, 2),
    Rates("resampleForDownRate", 2, 1, 2, 1), Rates("resampleForDownRate", 4, 1, 2, 1),
    Rates("resampleForDownRate", 2, 1, 1, 2),
    Rates("upSampleSimple", 2, 1, 1, 2), Rates("upSampleSimple", 1, 2, 1, 3),
    Rates("upSampleSimple", 2, 1, 2, 3),
    Rates("upSampleLinear", 2, 1, 1, 2), Rates("upSampleLinear", 1, 2, 1, 3),
    Rates("upSampleLinear", 2, 1, 2, 1), Rates("upSampleLinear", 2, 1, 1, 3),
    Resampled("resample", 1, 1, 3, 2, 16), Resampled("resample", 2, 1, 1, 2, 32),
    Resampled("resample", 1, 2, 2, 1, 16), Resampled("native", 1, 1, 2, 1, 16),
    Resampled("native", 1, 1, 3, 2, 16), Resampled("native", 1, 2, 2, 1, 16), Resampled("native", 1, 1, 1, 2, 16) }
  \union
  { [op |-> "stereoToMono"], [op |-> "shortToFloat"], [op |-> "16to32", size |-> 2, channels |-> 1],
    [op |-> "wav", rate |-> 48000, channels |-> 2, bits |-> 16],
    [op |-> "hex", delimiter |-> <<Delimiter>>], [op |-> "hex", delimiter |-> <<>>] }
  \union
  UNION { {Exchange(n, write, read) : write \in Writers(n), read \in Readers(n)} : n \in {2, 4, 8} }
=============================================================================
