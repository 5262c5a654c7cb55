\* Two processes read one or two keys each, again and again.
CONSTANTS
    Readers = {r1, r2}
    Lengths = {1, 2}
    Nobody = Nobody
SPECIFICATION FairSpec
INVARIANTS AnswerWhole LockAlive
PROPERTIES GetEnds
