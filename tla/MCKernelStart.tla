----------------------------- MODULE MCKernelStart -----------------------------
EXTENDS KernelStart
=============================================================================
