---------------------- MODULE MC_MPEG4VideoProcessor ----------------------
\* MPEG4VideoProcessor over the streams of MPEG4Streams, for the violation runs of one codec
EXTENDS MPEG4VideoProcessor, MPEG4Streams
=============================================================================
