\* A warm-up round, throughput tests of two messages of one and two bytes, a last round;
\* the buffers hold less than a test.
SPECIFICATION Spec
CONSTANTS
    Bytes <- MCBytes
    Window = 3
INVARIANTS TypeOK
PROPERTIES RoundIsComplete ClientEnds ServerEnds
