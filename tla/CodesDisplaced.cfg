\* The prompts of the app: one that is asked for takes the place of codes not yet copied.
SPECIFICATION ModalSpec
PROPERTIES
    CodesStayUntilCopied
