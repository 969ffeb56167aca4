SPECIFICATION Spec
CONSTANTS
    Requests = {r1}
    Boot = boot
PROPERTIES
    AnswerIsFresh
