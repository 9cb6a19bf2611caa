--------------------------- MODULE MCSamplingLoop ---------------------------
EXTENDS SamplingLoop

CONSTANTS proc, gpu, kv

=============================================================================
