\* Logins, rotations, revocations and recovery of two administrators.
SPECIFICATION Spec
CONSTANTS
    ana = ana  bia = bia  t1 = t1  t2 = t2  t3 = t3  c1 = c1  c2 = c2
    Usuarios = {ana, bia}
    Admins = {ana, bia}
    ComFator = {bia}
    Codigos = {c1, c2}
    Chamadas = {t1, t2, t3}
    Empresa = Empresa
    Nada = Nada
    Tipos = {"entrar", "verificar", "renovar", "sair", "desativar", "ativar", "rebaixar", "promover", "trocar", "solicitar", "redefinir", "configurar", "ligar", "desligar", "vincular", "google"}
INVARIANTS UmRamo TokenDeSessaoViva SempreHaAdmin UmLink FatorUmaVez DesafioSoComFator RedefinirEncerra
SYMMETRY Simetria
CHECK_DEADLOCK FALSE
