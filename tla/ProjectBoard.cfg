\* The organizer and one guest, a link to her, two requests or forms at a time.
SPECIFICATION Spec
CONSTANTS
    ann = ann
    Organizer = org
    People = {org, ann}
    Invitations = {i1}
    Addressee <- AllToAnn
    Workers = {w1, w2}
SYMMETRY EitherWorker
INVARIANTS
    TypeOK
    AsSaved
    AdmitsOnce
