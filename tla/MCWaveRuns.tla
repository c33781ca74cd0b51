------------------------------ MODULE MCWaveRuns ------------------------------
EXTENDS WaveRuns

=============================================================================
