SPECIFICATION Spec

CONSTANTS
    w1 = w1
    w2 = w2
    Workers = {w1, w2}
    n1 = n1
    n2 = n2
    Names = {n1, n2}
    MaxItems = 2
    f1 = f1
    f2 = f2
    f3 = f3
    FolderIds = {f1, f2, f3}
    MaxDeletes = 3
    Budgets <- MCBudgets

SYMMETRY Symmetry

INVARIANTS
    TypeOK
    WhatIsSentIsTrue
    SentOnce
    AnswerNamesTheFolder

PROPERTIES
    OrganizerCancelsFirst
