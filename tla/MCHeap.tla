------------------------------- MODULE MCHeap -------------------------------
EXTENDS Heap

TwoRegions == <<<<0, 4>>, <<4, 9>>>>
CoreMemory == <<20, 3>>
=============================================================================
