------------------------- MODULE MC_H265Processor -------------------------
\* H265Processor over the streams of H265Streams, for the violation runs of one codec
EXTENDS H265Processor, H265Streams
=============================================================================
