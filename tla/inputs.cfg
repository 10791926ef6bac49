SPECIFICATION Spec
CONSTANTS
  TitleCharacters = {"a", "A", "ss", "1/2", " ", "LS", "-"}
  EmailCharacters = {"a", "_", ".", "@", "-"}
  MaxTitle = 6
  MaxEmail = 7
  MaxLength = 65536
INVARIANTS AcceptedFits LoginAcceptsPasswords EditsCouldBeCreated SlugKeepsWords EmailsHaveDomain
CHECK_DEADLOCK FALSE
