------------------------------ MODULE MCSampler -----------------------------
EXTENDS Sampler
=============================================================================
