---------------------------- MODULE MCGaloisLfsr ----------------------------
EXTENDS GaloisLfsr

EverySeed == Word
=============================================================================
